---- MODULE Spec2Model ----
(***************************************************************************)
(* Model of the log-monitor Lambda (src/src/log_monitor): the handler's    *)
(* per-invocation pipeline over the DynamoDB table (GLOBAL, PROJECT and    *)
(* STATE records), the alarm state evaluator and the state updates.        *)
(*                                                                         *)
(* Time is counted in whole minutes.  A Python None is the value None, a   *)
(* missing attribute of a STATE item is None as well (the code reads them  *)
(* with dict.get), and a missing item is an item whose exists flag is      *)
(* FALSE.  A monitor keeps "key present" apart from the key's value.       *)
(***************************************************************************)
EXTENDS Integers, Sequences, FiniteSets, TLC

\* ------------------------------------------------------------ bounds
\* Invocations of the handler in one behaviour.
MaxRuns == 2
\* Largest number of post-exclusion matches one search returns.
MaxMatches == 1
\* External calls that fail in one invocation.
MaxFaults == 1
\* Events of a log stream in the window of a context request.
MaxEvents == 3
\* Largest number of context lines asked for.
MaxLimit == 2
\* Longest list of exclusion patterns.
MaxPatterns == 2
\* Responses the backend holds for one keyword search.
MaxPages == 3
\* Longest list of matches rendered into one message.
MaxLines == 3
\* Responses of get_log_events that do not end the pagination of one call.
MaxResponses == 3

\* --------------------------------------------------------- constants
INGESTION_DELAY_BUFFER_MIN == 2
DEFAULT_SEARCH_WINDOW_MIN == 5
\* The EventBridge schedule: one invocation every 5 minutes.
ScheduleMin == 5
\* The size limit of an SNS message, in bytes, the bytes sns_publish keeps
\* free for the envelope when it truncates, and the longest subject and title.
SNS_MAX_MESSAGE_BYTES == 256 * 1024
EnvelopeReserve == 1024
TitleLimit == 100
\* The zone JST (+09:00), in minutes, and the max_log_lines of a global
\* configuration that has none.
JstOffsetMin == 540
DefaultMaxLogLines == 20

\* Python's None, among numbers and timestamps.
None == 0 - 1

\* --------------------------------------------------- configuration
\* A monitor: keyword (a string, or a list of strings when is_list), the
\* optional renotify_min key, and no context_log_lines of its own.
Monitor(kw, isList, hasRenotify, renotify) ==
    [keyword |-> kw, is_list |-> isList,
     has_renotify_min |-> hasRenotify, renotify_min |-> renotify,
     context_log_lines |-> None]

\* The PROJECT records of the table, in sort-key order.  p1 watches a keyword
\* list, has no renotify_min key and asks for context lines; p2 is disabled;
\* p3 sets renotify_min explicitly (to r3) and asks for no context.
ProjectRecords(r3) ==
    << [sk |-> "p1", enabled |-> TRUE,
        monitors |-> << Monitor(<<"a", "b">>, TRUE, FALSE, None) >>,
        context_log_lines |-> 1,
        last_searched_at |-> None],
       [sk |-> "p2", enabled |-> FALSE,
        monitors |-> << Monitor(<<"a">>, FALSE, FALSE, None) >>,
        context_log_lines |-> 1,
        last_searched_at |-> None],
       [sk |-> "p3", enabled |-> TRUE,
        monitors |-> << Monitor(<<"a">>, FALSE, TRUE, r3) >>,
        context_log_lines |-> None,
        last_searched_at |-> None] >>

NoGlobal ==
    [exists |-> FALSE, notify_on_recover |-> FALSE,
     renotify_min |-> None, disable_custom_metrics |-> FALSE]

\* The GLOBAL#CONFIG record (exists = FALSE: the record is absent).  The
\* default interval is never (None), zero, shorter than the age a
\* notification of the previous run has (7 minutes), or longer.
GlobalRecords ==
    [exists : {TRUE}, notify_on_recover : BOOLEAN,
     renotify_min : {None, 0, 5, 10}, disable_custom_metrics : BOOLEAN]
    \cup {NoGlobal}

\* get_global_config: the record, or KeyError when there is none.
DefaultingGetGlobalConfig(record) ==
    [raised |-> FALSE, item |-> [record EXCEPT !.exists = TRUE]]

get_global_config(record) ==
    IF ~record.exists
    THEN [raised |-> TRUE, item |-> NoGlobal]
    ELSE [raised |-> FALSE, item |-> record]

\* ----------------------------------------------------- STATE records
\* sk of a STATE record: f"{project_sk}#{keyword}".
StateSk(project_sk, keyword) == project_sk \o "#" \o keyword

ProjectSks == {"p1", "p2", "p3"}
Keywords == {"a", "b"}
StateSks == {StateSk(p, k) : p \in ProjectSks, k \in Keywords}

NoItem ==
    [exists |-> FALSE, status |-> "absent", last_detected_at |-> None,
     last_notified_at |-> None, detection_count |-> None,
     current_streak |-> None]

\* find_state: the record of the loaded list whose sk is project#keyword,
\* or None (here NoItem).
find_state(sts, project_sk, keyword) ==
    LET target_sk == StateSk(project_sk, keyword)
    IN  IF target_sk \in DOMAIN sts /\ sts[target_sk].exists
        THEN sts[target_sk]
        ELSE NoItem

\* _minutes_since: minutes from the timestamp to the wall clock.
minutes_since(ts, clk) == clk - ts

\* The interval evaluate_state resolves: MONITOR, then GLOBAL defaults.
BuggyResolveRenotify(monitor, g) ==
    IF monitor.has_renotify_min /\ monitor.renotify_min # None
    THEN monitor.renotify_min
    ELSE g.renotify_min

ResolveRenotify(monitor, g) ==
    LET renotify == IF monitor.has_renotify_min THEN monitor.renotify_min
                    ELSE None
    IN  IF renotify = None /\ ~monitor.has_renotify_min
        THEN g.renotify_min
        ELSE renotify

\* Python truthiness of an optional number: None and 0 are false.
Truthy(n) == n # None /\ n # 0

\* The ALARM branch with detections: RENOTIFY or SUPPRESS.
StrictAlarmDetected(state, renotify, clk) ==
    IF /\ state.last_notified_at # None
       /\ Truthy(renotify)
       /\ minutes_since(state.last_notified_at, clk) > renotify
    THEN "RENOTIFY"
    ELSE "SUPPRESS"

\* The same branch announcing a repeated notification as a new alarm.
NotifyingAlarmDetected(state, renotify, clk) ==
    IF /\ state.last_notified_at # None
       /\ Truthy(renotify)
       /\ minutes_since(state.last_notified_at, clk) >= renotify
    THEN "NOTIFY"
    ELSE "SUPPRESS"

AlarmDetected(state, renotify, clk) ==
    IF /\ state.last_notified_at # None
       /\ Truthy(renotify)
       /\ minutes_since(state.last_notified_at, clk) >= renotify
    THEN "RENOTIFY"
    ELSE "SUPPRESS"

\* The status evaluate_state reads: state.get("status", "OK") if state else "OK".
StatusOf(state) ==
    IF state.exists /\ state.status # "absent" THEN state.status ELSE "OK"

SwappedRecoverAction(notify_on_recover) ==
    IF notify_on_recover THEN "RECOVER_SILENT" ELSE "RECOVER"

RecoverAction(notify_on_recover) ==
    IF notify_on_recover THEN "RECOVER" ELSE "RECOVER_SILENT"

\* evaluate_state(state, matches, monitor, global_config), with count the
\* length of matches and clk the wall clock.
evaluate_state(state, count, monitor, g, clk) ==
    LET status == StatusOf(state)
        renotify == ResolveRenotify(monitor, g)
    IN  IF count > 0
        THEN IF status = "OK" THEN "NOTIFY"
             ELSE IF status = "ALARM" THEN AlarmDetected(state, renotify, clk)
             ELSE "NONE"
        ELSE IF status = "ALARM" THEN RecoverAction(g.notify_on_recover)
             ELSE "NOOP"

\* update_state(table, project_sk, keyword, status, now_iso, detection_count,
\* current_streak) applied to the item (update_item creates a missing item).
TouchingUpdateState(item, status, now_iso, detection_count, current_streak) ==
    IF status = "ALARM"
    THEN [exists |-> TRUE, status |-> "ALARM",
          last_detected_at |-> now_iso, last_notified_at |-> now_iso,
          detection_count |->
              (IF item.detection_count = None THEN 0 ELSE item.detection_count)
              + detection_count,
          current_streak |-> current_streak]
    ELSE [item EXCEPT !.exists = TRUE, !.status = "OK", !.current_streak = 0,
                      !.last_notified_at = now_iso]

StreakKeepingUpdateState(item, status, now_iso, detection_count, current_streak) ==
    IF status = "ALARM"
    THEN [exists |-> TRUE, status |-> "ALARM",
          last_detected_at |-> now_iso, last_notified_at |-> now_iso,
          detection_count |->
              (IF item.detection_count = None THEN 0 ELSE item.detection_count)
              + detection_count,
          current_streak |-> current_streak]
    ELSE [item EXCEPT !.exists = TRUE, !.status = "OK"]

update_state(item, status, now_iso, detection_count, current_streak) ==
    IF status = "ALARM"
    THEN [exists |-> TRUE, status |-> "ALARM",
          last_detected_at |-> now_iso, last_notified_at |-> now_iso,
          detection_count |->
              (IF item.detection_count = None THEN 0 ELSE item.detection_count)
              + detection_count,
          current_streak |-> current_streak]
    ELSE IF status = "OK"
    THEN [item EXCEPT !.exists = TRUE, !.status = "OK", !.current_streak = 0]
    ELSE item

\* update_state_suppress(table, project_sk, keyword, detection_count, current_streak).
CountKeepingUpdateStateSuppress(item, detection_count, current_streak) ==
    [item EXCEPT !.exists = TRUE, !.current_streak = current_streak]

update_state_suppress(item, detection_count, current_streak) ==
    [item EXCEPT !.exists = TRUE,
                 !.detection_count =
                     (IF item.detection_count = None THEN 0 ELSE item.detection_count)
                     + detection_count,
                 !.current_streak = current_streak]

\* The same flattening with the keywords of a list taken from its end.
RECURSIVE ReversedExpandKeywords(_, _)
ReversedExpandKeywords(m, kws) ==
    IF kws = <<>> THEN <<>>
    ELSE ReversedExpandKeywords(m, Tail(kws))
         \o << [m EXCEPT !.keyword = Head(kws), !.is_list = FALSE] >>

\* The flattening of monitors_config: one monitor per keyword of a list.
RECURSIVE ExpandKeywords(_, _)
ExpandKeywords(m, kws) ==
    IF kws = <<>> THEN <<>>
    ELSE << [m EXCEPT !.keyword = Head(kws), !.is_list = FALSE] >>
         \o ExpandKeywords(m, Tail(kws))

RECURSIVE FlattenMonitors(_)
FlattenMonitors(monitors_config) ==
    IF monitors_config = <<>> THEN <<>>
    ELSE LET m == Head(monitors_config)
         IN  (IF m.is_list THEN ExpandKeywords(m, m.keyword)
              ELSE IF m.keyword # <<>> /\ m.keyword[1] # ""
                   THEN << [m EXCEPT !.keyword = m.keyword[1]] >>
                   ELSE <<>>)
             \o FlattenMonitors(Tail(monitors_config))

\* ------------------------------------------- preceding context lines
\* A log message: its text up to the trailing whitespace, and the number of
\* trailing whitespace characters.  NoMessage is Python's None.
Message(text, ws) == [text |-> text, ws |-> ws]

NoMessage == Message("", None)

\* str.rstrip().
rstrip(m) == [m EXCEPT !.ws = 0]

\* Python truthiness of an optional string: None and "" are false.
TruthyMessage(m) == m # NoMessage /\ m # Message("", 0)

\* An event of a log stream.
Event(ts, m) == [timestamp |-> ts, message |-> m]

\* A response of get_log_events ("" is no nextForwardToken); ok = FALSE: the
\* request raised.
Response(ok, events, token) ==
    [ok |-> ok, events |-> events, nextForwardToken |-> token]

\* The context_lines_count of handler, line 178.
ContextLinesCount(monitor, project) ==
    IF Truthy(monitor.context_log_lines) THEN monitor.context_log_lines
    ELSE IF Truthy(project.context_log_lines) THEN project.context_log_lines
    ELSE 0

\* get_previous_log_lines, lines 125-137: the pagination loop over the
\* responses of the backend, in the order it gives them.  A backend that has
\* no response left fails the request.
RECURSIVE CollectEvents(_, _, _, _)
CollectEvents(pages, i, prev_token, all_events) ==
    IF i > Len(pages) \/ ~pages[i].ok
    THEN [failed |-> TRUE, all_events |-> <<>>, requests |-> i]
    ELSE LET events == all_events \o pages[i].events
             next_token == pages[i].nextForwardToken
         IN  IF next_token = "" \/ next_token = prev_token
             THEN [failed |-> FALSE, all_events |-> events, requests |-> i]
             ELSE CollectEvents(pages, i + 1, next_token, events)

\* get_previous_log_lines, lines 139-147: the backward search from index i.
\* Indices count from 1; 0 is the code's -1.
RECURSIVE ForwardTargetIndex(_, _, _, _)
ForwardTargetIndex(all_events, i, timestamp, match_message) ==
    LET k == Len(all_events) - i + 1
    IN  IF i = 0 THEN 0
        ELSE IF /\ all_events[k].timestamp = timestamp
                /\ \/ ~TruthyMessage(match_message)
                   \/ rstrip(all_events[k].message) = rstrip(match_message)
        THEN k
        ELSE ForwardTargetIndex(all_events, i - 1, timestamp, match_message)

RECURSIVE TargetIndex(_, _, _, _)
TargetIndex(all_events, i, timestamp, match_message) ==
    IF i = 0 THEN 0
    ELSE IF /\ all_events[i].timestamp = timestamp
            /\ \/ ~TruthyMessage(match_message)
               \/ rstrip(all_events[i].message) = rstrip(match_message)
    THEN i
    ELSE TargetIndex(all_events, i - 1, timestamp, match_message)

\* previous_events[-limit:], for a positive limit.
LastN(s, limit) ==
    IF Len(s) <= limit THEN s ELSE SubSeq(s, Len(s) - limit + 1, Len(s))

\* [e["message"].rstrip() for e in events].
StrippedMessages(events) ==
    [i \in DOMAIN events |-> rstrip(events[i].message)]

\* get_previous_log_lines, lines 149-155: the lines before the target.
PreviousLines(all_events, timestamp, limit, match_message) ==
    LET target_index ==
            TargetIndex(all_events, Len(all_events), timestamp, match_message)
        previous_events ==
            IF target_index = 0
            THEN SelectSeq(all_events, LAMBDA e : e.timestamp < timestamp)
            ELSE SubSeq(all_events, 1, target_index - 1)
    IN  StrippedMessages(LastN(previous_events, limit))

\* get_previous_log_lines, line 107: nothing to fetch ("" is the empty or
\* missing stream name).
CheckLimitOnly(stream_name, limit) == limit <= 0

ShortCircuit(stream_name, limit) == limit <= 0 \/ stream_name = ""

\* get_previous_log_lines, lines 156-158: a failed request gives no lines.
ContextFailureRaises(requests) ==
    [lines |-> <<>>, requests |-> requests, failed |-> TRUE, raised |-> TRUE]

ContextFailure(requests) ==
    [lines |-> <<>>, requests |-> requests, failed |-> TRUE, raised |-> FALSE]

\* get_previous_log_lines(log_group, stream_name, timestamp, limit,
\* match_message) against a backend answering with pages: the lines it
\* returns, the requests it issued, whether a request failed and whether the
\* call raised.
get_previous_log_lines(stream_name, timestamp, limit, match_message, pages) ==
    IF ShortCircuit(stream_name, limit)
    THEN [lines |-> <<>>, requests |-> 0, failed |-> FALSE, raised |-> FALSE]
    ELSE LET got == CollectEvents(pages, 1, "", <<>>)
         IN  IF got.failed
             THEN ContextFailure(got.requests)
             ELSE [lines |-> PreviousLines(got.all_events, timestamp, limit,
                                           match_message),
                   requests |-> got.requests,
                   failed |-> FALSE, raised |-> FALSE]

\* The first match of a search of the handler, and the answers of the
\* backend to the context request for it: one page, a failed request, or a
\* page and a failed request.
FirstMatch ==
    [timestamp |-> 2, logStreamName |-> "s", message |-> Message("m", 1)]

ContextPages ==
    { << Response(TRUE, << Event(1, Message("l", 1)),
                           Event(2, Message("m", 1)) >>, "") >>,
      << Response(FALSE, <<>>, "") >>,
      << Response(TRUE, << Event(1, Message("l", 1)) >>, "t1"),
         Response(FALSE, <<>>, "") >> }

\* ---------------------------------------------------- keyword search
\* A response of filter_log_events ("" is no nextToken); ok = FALSE: the
\* request raised.
Page(ok, events, token) ==
    [ok |-> ok, events |-> events, nextToken |-> token]

\* filter_log_events_with_pagination, lines 70-80: the loop over the
\* responses of the backend, in the order it gives them.  The request for
\* response i carries next_token ("" in the first one: no nextToken key);
\* tokens are the tokens of the requests made so far.  An exception of
\* client.filter_log_events leaves the function.
RECURSIVE FirstPageOnly(_, _, _, _, _)
FirstPageOnly(pages, i, next_token, all_events, tokens) ==
    IF ~pages[i].ok
    THEN [raised |-> TRUE, events |-> <<>>, tokens |-> Append(tokens, next_token)]
    ELSE [raised |-> FALSE, events |-> all_events \o pages[i].events,
          tokens |-> Append(tokens, next_token)]

RECURSIVE FilterLoop(_, _, _, _, _)
FilterLoop(pages, i, next_token, all_events, tokens) ==
    IF ~pages[i].ok
    THEN [raised |-> TRUE, events |-> <<>>, tokens |-> Append(tokens, next_token)]
    ELSE IF pages[i].nextToken = ""
    THEN [raised |-> FALSE, events |-> all_events \o pages[i].events,
          tokens |-> Append(tokens, next_token)]
    ELSE FilterLoop(pages, i + 1, pages[i].nextToken,
                    all_events \o pages[i].events, Append(tokens, next_token))

\* filter_log_events_with_pagination(log_group, stream_prefix, keyword,
\* start_time, end_time) against a backend answering with pages: whether it
\* raised, the events it returned and the tokens of its requests.
filter_log_events_with_pagination(pages) ==
    FilterLoop(pages, 1, "", <<>>, <<>>)

\* ------------------------------------------------ exclusion patterns
\* A pattern string: what re.compile does with it ("ok", or the exception
\* it raises) and, for a regular expression that compiles, whether it
\* begins with ^ and its characters, "." matching any character.
Pattern(compiles, anchored, chars) ==
    [compiles |-> compiles, anchored |-> anchored, chars |-> chars]

\* An exclude_patterns argument: a list, or None (present = FALSE).
PatternList(present, list) == [present |-> present, list |-> list]

\* The characters of the pattern match the message from position i on.
MatchAt(p, message, i) ==
    /\ i + Len(p.chars) - 1 <= Len(message)
    /\ \A j \in DOMAIN p.chars : p.chars[j] \in {".", message[i + j - 1]}

\* regex.match(message): at the beginning only.
regex_match(p, message) == MatchAt(p, message, 1)

\* regex.search(message): at the first position where the pattern matches.
regex_search(p, message) ==
    \E i \in 1..(Len(message) + 1) :
        /\ p.anchored => i = 1
        /\ MatchAt(p, message, i)

\* apply_exclusions_regex, lines 26-31: the patterns that compile; re.error
\* is caught, another exception of re.compile leaves the function.
CompileRaises(exclude_patterns) ==
    \E i \in DOMAIN exclude_patterns :
        exclude_patterns[i].compiles \notin {"ok", "re.error"}

Compiled(exclude_patterns) ==
    SelectSeq(exclude_patterns, LAMBDA p : p.compiles = "ok")

\* apply_exclusions_regex, lines 36-40: the events no pattern is found in.
RECURSIVE SkippingFilterEvents(_, _)
SkippingFilterEvents(events, compiled) ==
    IF events = <<>> THEN <<>>
    ELSE IF \E i \in DOMAIN compiled : regex_search(compiled[i], Head(events).message)
    THEN IF Len(events) = 1 THEN <<>>
         ELSE << events[2] >>
              \o SkippingFilterEvents(Tail(Tail(events)), compiled)
    ELSE << Head(events) >> \o SkippingFilterEvents(Tail(events), compiled)

FilterEvents(events, compiled) ==
    SelectSeq(events,
              LAMBDA event :
                  ~\E i \in DOMAIN compiled : regex_search(compiled[i], event.message))

\* apply_exclusions_regex(events, exclude_patterns): the events returned,
\* or raised when an exception leaves it.
apply_exclusions_regex(events, exclude_patterns) ==
    IF ~exclude_patterns.present \/ exclude_patterns.list = <<>>
    THEN [raised |-> FALSE, events |-> events]
    ELSE IF CompileRaises(exclude_patterns.list)
    THEN [raised |-> TRUE, events |-> <<>>]
    ELSE IF Compiled(exclude_patterns.list) = <<>>
    THEN [raised |-> FALSE, events |-> events]
    ELSE [raised |-> FALSE,
          events |-> FilterEvents(events, Compiled(exclude_patterns.list))]

\* ------------------------------------------------- notification target
\* An optional string of a configuration record: the key is missing
\* (Absent), holds None (Null), or holds a string, possibly the empty one.
Absent == "<absent>"

Null == "<None>"

\* dict.get(key): None for a missing key.
Get(v) == IF v = Absent THEN Null ELSE v

\* Python truthiness of what dict.get returned.
TruthyString(v) == v \notin {Absent, Null, ""}

Severities == {"critical", "warning"}

\* resolve_sns_topic(monitor, project, global_config): the topic returned,
\* or raised when an exception leaves it.  override_sns_topics of the project
\* is missing ("absent"), None ("null") or a map from severities to optional
\* strings.
resolve_sns_topic(monitor, project, g) ==
    LET severity == IF TruthyString(Get(monitor.severity))
                    THEN monitor.severity
                    ELSE g.defaults_severity
    IN  IF TruthyString(Get(monitor.override_sns_topic))
        THEN [raised |-> FALSE, topic |-> monitor.override_sns_topic]
        ELSE IF project.override_sns_topics.kind = "null"
        THEN [raised |-> TRUE, topic |-> Null]
        ELSE IF /\ project.override_sns_topics.kind = "map"
                /\ project.override_sns_topics.map[severity] # Absent
        THEN [raised |-> FALSE,
              topic |-> project.override_sns_topics.map[severity]]
        ELSE [raised |-> FALSE, topic |-> g.sns_topics[severity]]

\* ------------------------------------------------------- sns_publish
\* A text is a sequence of runs of characters of one kind: "ascii" (one
\* byte in UTF-8 and in the output of json.dumps), "escaped" (a newline or a
\* quote: one byte in UTF-8, two in JSON) and "wide" (a character such as
\* a kana: three bytes in UTF-8, six in JSON, where json.dumps writes it as
\* \uXXXX).  No run is empty and neighbouring runs differ in kind.
Run(kind, n) == [kind |-> kind, n |-> n]

Utf8Width(kind) == IF kind = "wide" THEN 3 ELSE 1

JsonWidth(kind) ==
    IF kind = "wide" THEN 6 ELSE IF kind = "escaped" THEN 2 ELSE 1

\* len(text), len(text.encode("utf-8")) and the bytes of text inside
\* json.dumps(...).encode("utf-8").
RECURSIVE Chars(_)
Chars(text) ==
    IF text = <<>> THEN 0 ELSE Head(text).n + Chars(Tail(text))

RECURSIVE Utf8Bytes(_)
Utf8Bytes(text) ==
    IF text = <<>> THEN 0
    ELSE Head(text).n * Utf8Width(Head(text).kind) + Utf8Bytes(Tail(text))

RECURSIVE JsonBytes(_)
JsonBytes(text) ==
    IF text = <<>> THEN 0
    ELSE Head(text).n * JsonWidth(Head(text).kind) + JsonBytes(Tail(text))

\* text[:k].
RECURSIVE TakeChars(_, _)
TakeChars(text, k) ==
    IF text = <<>> \/ k <= 0 THEN <<>>
    ELSE IF Head(text).n <= k
    THEN << Head(text) >> \o TakeChars(Tail(text), k - Head(text).n)
    ELSE << Run(Head(text).kind, k) >>

\* text.encode("utf-8")[:b].decode("utf-8", errors="ignore"): the bytes
\* of a character cut in two are dropped.
RECURSIVE TakeBytes(_, _)
TakeBytes(text, b) ==
    IF text = <<>> \/ b <= 0 THEN <<>>
    ELSE LET width == Utf8Width(Head(text).kind)
             whole == Head(text).n * width
         IN  IF whole <= b
             THEN << Head(text) >> \o TakeBytes(Tail(text), b - whole)
             ELSE IF b \div width > 0
             THEN << Run(Head(text).kind, b \div width) >>
             ELSE <<>>

\* "\n... (truncated)".
TruncationMarker == << Run("escaped", 1), Run("ascii", 15) >>

\* len(json.dumps(chatbot_payload).encode("utf-8")): the envelope with an
\* empty title and an empty description takes 83 bytes.
EnvelopeBytes == 83

PayloadBytes(payload) ==
    EnvelopeBytes + JsonBytes(payload.content.title)
                  + JsonBytes(payload.content.description)

\* sns_publish(topic_arn, message): the Subject and the Message (before
\* its serialization) handed to client.publish.
sns_publish(message) ==
    LET body == message.body
        chatbot_payload ==
            [version |-> "1.0", source |-> "custom",
             content |-> [title |-> TakeChars(message.subject, TitleLimit),
                          description |-> body]]
        max_body_bytes == SNS_MAX_MESSAGE_BYTES - EnvelopeReserve
        truncated_body == TakeBytes(body, max_body_bytes) \o TruncationMarker
    IN  [Subject |-> TakeChars(message.subject, TitleLimit),
         Message |->
            IF PayloadBytes(chatbot_payload) > SNS_MAX_MESSAGE_BYTES
            THEN [chatbot_payload EXCEPT !.content.description = truncated_body]
            ELSE chatbot_payload]

\* ---------------------------------------------------- render_message
\* Strings of the rendered message.  The labels and placeholders of the
\* source are Japanese text; they are written here in ASCII.
NoLogLines == "(no log lines)"
NoPreviousLines == "(none)"

\* The string of a log message: its text and its trailing whitespace.
RECURSIVE Spaces(_)
Spaces(n) == IF n <= 0 THEN "" ELSE " " \o Spaces(n - 1)

Str(m) == IF m = NoMessage THEN "" ELSE m.text \o Spaces(m.ws)

\* A matched log event; a timestamp of None is an event without the key.
LogEvent(m, stream, ts) ==
    [message |-> m, logStreamName |-> stream, timestamp |-> ts]

\* str.upper() on the severities.
Upper(s) ==
    CASE s = "critical" -> "CRITICAL"
      [] s = "warning" -> "WARNING"
      [] s = "info" -> "INFO"
      [] OTHER -> s

\* strftime("%Y-%m-%d %H:%M:%S JST") of a time (in minutes) in the zone JST.
FormatJst(t) == ToString(t + JstOffsetMin) \o " JST"

\* sep.join(lines).
RECURSIVE Join(_, _)
Join(lines, sep) ==
    IF lines = <<>> THEN ""
    ELSE IF Len(lines) = 1 THEN lines[1]
    ELSE lines[1] \o sep \o Join(Tail(lines), sep)

\* s[:k], also for a negative k.
Slice(s, k) ==
    IF k >= 0
    THEN SubSeq(s, 1, IF k < Len(s) THEN k ELSE Len(s))
    ELSE SubSeq(s, 1, Len(s) + k)

\* render_message, lines 108-115: the stripped messages in first-seen order;
\* log_counts[msg].
RECURSIVE KeepingDuplicates(_, _)
KeepingDuplicates(matches, ordered_logs) ==
    IF matches = <<>> THEN ordered_logs
    ELSE KeepingDuplicates(Tail(matches),
             Append(ordered_logs, Str(rstrip(Head(matches).message))))

RECURSIVE OrderedLogs(_, _)
OrderedLogs(matches, ordered_logs) ==
    IF matches = <<>> THEN ordered_logs
    ELSE LET msg == Str(rstrip(Head(matches).message))
         IN  OrderedLogs(Tail(matches),
                 IF \E i \in DOMAIN ordered_logs : ordered_logs[i] = msg
                 THEN ordered_logs
                 ELSE Append(ordered_logs, msg))

LogCount(matches, msg) ==
    Cardinality({i \in DOMAIN matches : Str(rstrip(matches[i].message)) = msg})

\* render_message, lines 117-125: the lines of log_lines.
FormattedLines(matches, max_lines) ==
    LET kept == Slice(OrderedLogs(matches, <<>>), max_lines)
    IN  [i \in DOMAIN kept |->
            IF LogCount(matches, kept[i]) > 1
            THEN kept[i] \o " (x" \o ToString(LogCount(matches, kept[i])) \o ")"
            ELSE kept[i]]

\* sorted(set(e.get("logStreamName", "") for e in matches)), the stream
\* names being those of StreamOrder.
StreamOrder == << "s1", "s2" >>

StreamNames(matches) ==
    SelectSeq(StreamOrder,
              LAMBDA s : \E i \in DOMAIN matches : matches[i].logStreamName = s)

\* The placeholders of a template, in the order of the variables dict.
Placeholders ==
    << "{project}", "{keyword}", "{severity}", "{count}", "{detected_at}",
       "{log_group}", "{stream_name}", "{log_lines}", "{streak}" >>

\* subject.replace(placeholder, value) for all variables: the subject is a
\* sequence of pieces, a piece being a placeholder or text without one (the
\* values hold no placeholders either).
RECURSIVE Expand(_, _)
Expand(pieces, variables) ==
    IF pieces = <<>> THEN ""
    ELSE (IF Head(pieces) \in DOMAIN variables
          THEN variables[Head(pieces)] ELSE Head(pieces))
         \o Expand(Tail(pieces), variables)

\* render_message, lines 153-155 and 182-184: the subject of a RECOVER.
SeverityInRecoverSubject(template, variables) ==
    Expand(template.subject, variables)

RecoverSubject(template, variables) ==
    Expand(template.subject, [variables EXCEPT !["{severity}"] = "RECOVER"])

\* render_message(template, project, monitor, matches, action,
\* global_config, state, previous_log_lines) at the time now.
render_message(template, project, monitor, matches, action, g, state, previous, now) ==
    LET detected_at_str ==
            IF matches # <<>> /\ matches[Len(matches)].timestamp # None
            THEN FormatJst(matches[Len(matches)].timestamp)
            ELSE FormatJst(now)
        severity ==
            Upper(IF TruthyString(monitor.severity) THEN monitor.severity
                  ELSE g.defaults_severity)
        log_group ==
            IF TruthyString(project.override_log_group)
            THEN project.override_log_group ELSE g.source_log_group
        max_lines ==
            IF g.max_log_lines = None THEN DefaultMaxLogLines
            ELSE g.max_log_lines
        log_lines == Join(FormattedLines(matches, max_lines), "\n")
        prev_logs_text ==
            IF previous = <<>> THEN NoPreviousLines
            ELSE Join([i \in DOMAIN previous |-> Str(previous[i])], "\n")
        streak ==
            IF state.exists /\ state.current_streak # None
            THEN state.current_streak ELSE 0
        mention ==
            IF TruthyString(monitor.mention) THEN monitor.mention
            ELSE IF TruthyString(project.mention) THEN project.mention
            ELSE ""
        variables ==
            [v \in {Placeholders[i] : i \in DOMAIN Placeholders} |->
                CASE v = "{project}" ->
                        IF project.display_name # Absent
                        THEN project.display_name ELSE project.sk
                  [] v = "{keyword}" -> monitor.keyword
                  [] v = "{severity}" -> severity
                  [] v = "{count}" -> ToString(Len(matches))
                  [] v = "{detected_at}" -> detected_at_str
                  [] v = "{log_group}" -> log_group
                  [] v = "{stream_name}" -> Join(StreamNames(matches), ", ")
                  [] v = "{log_lines}" ->
                        IF log_lines # "" THEN log_lines ELSE NoLogLines
                  [] v = "{streak}" -> ToString(streak)]
        subject ==
            IF action = "RECOVER" THEN RecoverSubject(template, variables)
            ELSE Expand(template.subject, variables)
        body_parts ==
            << subject >>
            \o (IF mention # "" THEN << mention >> ELSE <<>>)
            \o << "count: " \o variables["{count}"],
                  "timestamp: " \o variables["{detected_at}"],
                  "log group: " \o variables["{log_group}"],
                  "log stream: " \o variables["{stream_name}"],
                  "log lines:",
                  variables["{log_lines}"],
                  "previous lines:",
                  prev_logs_text >>
    IN  [subject |-> subject,
         body |->
            IF action = "RECOVER"
            THEN variables["{project}"] \o " / " \o variables["{keyword}"]
                 \o " has recovered\n" \o variables["{detected_at}"]
            ELSE Join(body_parts, "\n")]

\* -------------------------------------------------------------- state
VARIABLES
    clock,            \* wall clock, minutes
    runs,             \* invocations started so far
    table_global,     \* the GLOBAL#CONFIG record
    table_projects,   \* the PROJECT records
    table_states,     \* the STATE records, by sk
    pc,               \* the handler's position
    global_config,    \* handler: the loaded GLOBAL record
    projects,         \* handler: the loaded PROJECT records
    states,           \* handler: the loaded STATE records
    search_end,       \* handler: now - ingestion delay
    results,          \* handler: the summary
    pi,               \* handler: index of the project in the loop
    search_start,     \* _process_project: start of the window
    monitors,         \* _process_project: the flattened monitors
    mi,               \* _process_project: index of the monitor in the loop
    matches,          \* _process_project: len(matches) after exclusions
    action,           \* _process_project: the action of evaluate_state
    previous_log_lines, \* _process_project: the context lines of the notification
    published,        \* log: notifications the transport accepted in this invocation
    metrics,          \* log: metrics the sink accepted in this invocation
    processed,        \* log: monitors whose step 7 (state update) completed
    failures,         \* log: exceptions raised in this invocation
    requested,        \* log: context requests issued in this invocation
    detected_runs,    \* history: per state key, the latest completed runs in a row with a detection
    last_change,      \* history: per state key, the latest NOTIFY or recovery of a completed run
    earlier,          \* history: the windows and the raised projects of the invocation before
    call,             \* a function called on its own: its arguments
    ret               \* a function called on its own: what it returned

vars == << clock, runs, table_global, table_projects, table_states, pc,
           global_config, projects, states, search_end, results, pi,
           search_start, monitors, mi, matches, action, previous_log_lines,
           published, metrics, processed, failures, requested, detected_runs, last_change,
           earlier,
           call, ret >>

loopVars == << search_start, monitors, mi, matches, action,
               previous_log_lines >>

callVars == << call, ret >>

\* No function is called on its own while the handler runs.
NoCall == [fn |-> "none"]

ZeroResults ==
    [processed_projects |-> 0, total_monitors |-> 0,
     total_detections |-> 0, notifications_sent |-> 0]

NoStates == [sk \in StateSks |-> NoItem]

\* Runs whose history is not that of complete runs: a project that raised.
Unknown == None

\* The history that the records of a table stand for: a record's streak, 0
\* without a record.
RunsOf(sts) ==
    [sk \in StateSks |->
        IF sts[sk].exists /\ sts[sk].current_streak # None
        THEN sts[sk].current_streak
        ELSE 0]

\* Nothing is kept of an invocation before the first one.
NoEarlier ==
    [search_end |-> None, search_start |-> [p \in ProjectSks |-> None],
     raised |-> {}, unpublished |-> {}]

\* The change that the records of a table stand for: a record in alarm was
\* notified, another record has recovered.
ChangesOf(sts) ==
    [sk \in StateSks |->
        IF ~sts[sk].exists THEN "NONE"
        ELSE IF sts[sk].status = "ALARM" THEN "NOTIFY" ELSE "RECOVER"]

\* The latest change after a monitor's run with that action was completed.
AfterAction(change, act) ==
    IF act \in {"NOTIFY", "RECOVER", "RECOVER_SILENT"} THEN act ELSE change

\* The history after a monitor's run with that many matches was completed.
AfterRun(runs_so_far, found) ==
    IF runs_so_far = Unknown THEN Unknown
    ELSE IF found > 0 THEN runs_so_far + 1 ELSE 0

\* The history after an invocation: the runs of a project that raised were
\* not completed.
AfterInvocation(history, fails) ==
    [sk \in StateSks |->
        IF \E i \in DOMAIN fails, k \in Keywords :
               /\ fails[i].what \in {"search", "publish", "update_state",
                                     "update_project_timestamp"}
               /\ sk = StateSk(fails[i].project, k)
        THEN Unknown
        ELSE history[sk]]

Init ==
    /\ clock = 2 * ScheduleMin
    /\ runs = 0
    /\ table_global \in GlobalRecords
    /\ \E r3 \in {None, 7} : table_projects = ProjectRecords(r3)
    /\ table_states = NoStates
    /\ pc = "idle"
    /\ global_config = NoGlobal
    /\ projects = <<>>
    /\ states = NoStates
    /\ search_end = None
    /\ results = ZeroResults
    /\ pi = 0
    /\ search_start = None
    /\ monitors = <<>>
    /\ mi = 0
    /\ matches = 0
    /\ action = "NONE"
    /\ previous_log_lines = <<>>
    /\ published = <<>>
    /\ metrics = <<>>
    /\ processed = <<>>
    /\ failures = <<>>
    /\ requested = <<>>
    /\ detected_runs = RunsOf(table_states)
    /\ last_change = ChangesOf(table_states)
    /\ earlier = NoEarlier
    /\ call = NoCall
    /\ ret = NoCall

\* An entry of the logs: the monitor at hand, and what happened.
LogEntry(what) ==
    [project |-> IF pi \in DOMAIN projects THEN projects[pi].sk ELSE "",
     idx |-> mi,
     keyword |-> IF mi \in DOMAIN monitors THEN monitors[mi].keyword ELSE "",
     what |-> what]

\* An external call may fail while the invocation's fault budget lasts.
MayFail == Len(failures) < MaxFaults

\* The scheduler invokes the handler.
Invoke ==
    /\ pc = "idle"
    /\ runs < MaxRuns
    /\ runs' = runs + 1
    /\ pc' = "load"
    /\ UNCHANGED << clock, table_global, table_projects, table_states,
                    global_config, projects, states, search_end, results, pi,
                    loopVars, published, metrics, processed, failures,
                    callVars, requested,
                    detected_runs, last_change, earlier >>

\* handler, lines 60-78: load the configuration, fix the search end.  A
\* missing GLOBAL record or a failed read of the table leaves handler.
LoadConfig ==
    /\ pc = "load"
    /\ \/ LET got == get_global_config(table_global)
          IN  IF got.raised
              THEN /\ pc' = "raised"
                   /\ failures' = Append(failures, LogEntry("global_config"))
                   /\ UNCHANGED << global_config, projects, states,
                                   search_end, results, pi >>
              ELSE /\ global_config' = got.item
                   /\ projects' = table_projects
                   /\ states' = table_states
                   /\ search_end' = clock - INGESTION_DELAY_BUFFER_MIN
                   /\ results' = ZeroResults
                   /\ pi' = 1
                   /\ pc' = "projects"
                   /\ UNCHANGED failures
       \/ /\ MayFail
          /\ pc' = "raised"
          /\ failures' = Append(failures, LogEntry("table_read"))
          /\ UNCHANGED << global_config, projects, states, search_end,
                          results, pi >>
    /\ UNCHANGED << clock, runs, table_global, table_projects, table_states,
                    loopVars, published, metrics, processed, callVars, requested,
                    detected_runs, last_change, earlier >>

\* _process_project, lines 102-106: the start of the search window, from
\* the project's watermark or the default window before the search end.
SearchStartIgnoringWatermark(project, end) ==
    end - DEFAULT_SEARCH_WINDOW_MIN

SearchStart(project, end) ==
    IF project.last_searched_at # None
    THEN project.last_searched_at
    ELSE end - DEFAULT_SEARCH_WINDOW_MIN

\* What is kept of an invocation for the next one to be compared with: its
\* search end, the search start of every project it processed, the projects
\* that an exception left, and the keys whose notification was not published.
Invocation(loaded, end, fails) ==
    [search_end |-> end,
     search_start |->
         [p \in ProjectSks |->
             IF \E i \in DOMAIN loaded : loaded[i].sk = p /\ loaded[i].enabled
             THEN SearchStart(loaded[CHOOSE i \in DOMAIN loaded : loaded[i].sk = p], end)
             ELSE None],
     raised |->
         {fails[k].project : k \in {j \in DOMAIN fails :
             fails[j].what \in {"search", "publish", "update_state",
                                 "update_project_timestamp"}}},
     unpublished |->
         {StateSk(fails[k].project, fails[k].keyword) :
             k \in {j \in DOMAIN fails : fails[j].what = "publish"}}]

\* handler, lines 80-95 and _process_project, lines 100-128: the project loop.
NextProjectIgnoringEnabled ==
    /\ pc = "projects"
    /\ IF pi > Len(projects)
       THEN /\ pc' = "done"
            /\ UNCHANGED << pi, loopVars >>
       ELSE /\ search_start' = SearchStart(projects[pi], search_end)
            /\ monitors' = FlattenMonitors(projects[pi].monitors)
            /\ mi' = 1
            /\ pc' = "monitor"
            /\ UNCHANGED << pi, matches, action, previous_log_lines >>
    /\ UNCHANGED << clock, runs, table_global, table_projects, table_states,
                    global_config, projects, states, search_end, results,
                    published, metrics, processed, failures, callVars, requested,
                    detected_runs, last_change, earlier >>

NextProject ==
    /\ pc = "projects"
    /\ IF pi > Len(projects)
       THEN /\ pc' = "done"
            /\ UNCHANGED << pi, loopVars >>
       ELSE IF ~projects[pi].enabled
       THEN /\ pi' = pi + 1
            /\ pc' = "projects"
            /\ UNCHANGED loopVars
       ELSE /\ search_start' = SearchStart(projects[pi], search_end)
            /\ monitors' = FlattenMonitors(projects[pi].monitors)
            /\ mi' = 1
            /\ pc' = "monitor"
            /\ UNCHANGED << pi, matches, action, previous_log_lines >>
    /\ UNCHANGED << clock, runs, table_global, table_projects, table_states,
                    global_config, projects, states, search_end, results,
                    published, metrics, processed, failures, callVars, requested,
                    detected_runs, last_change, earlier >>

SetTimestamp(recs, project_sk, ts) ==
    [i \in DOMAIN recs |->
        IF recs[i].sk = project_sk
        THEN [recs[i] EXCEPT !.last_searched_at = ts]
        ELSE recs[i]]

\* An exception leaves _process_project and is caught by handler (lines
\* 88-92): the project is skipped, the loop goes on.
ProjectRaisesAndAborts(step) ==
    /\ MayFail
    /\ failures' = Append(failures, LogEntry(step))
    /\ pc' = "raised"
    /\ UNCHANGED << pi, table_projects >>

ProjectRaisesAndCommits(step) ==
    /\ MayFail
    /\ failures' = Append(failures, LogEntry(step))
    /\ table_projects' = SetTimestamp(table_projects, projects[pi].sk, search_end)
    /\ pi' = pi + 1
    /\ pc' = "projects"

ProjectRaises(step) ==
    /\ MayFail
    /\ failures' = Append(failures, LogEntry(step))
    /\ pi' = pi + 1
    /\ pc' = "projects"
    /\ UNCHANGED table_projects

\* _process_project, lines 130-147: the next monitor's search and exclusions.
Search ==
    /\ pc = "monitor"
    /\ IF mi > Len(monitors)
       THEN /\ pc' = "timestamp"
            /\ UNCHANGED << results, matches, pi, failures, table_projects >>
       ELSE \/ \E n \in 0..MaxMatches :
                 /\ matches' = n
                 /\ results' = [results EXCEPT
                        !.total_monitors = @ + 1, !.total_detections = @ + n]
                 /\ pc' = "metric"
                 /\ UNCHANGED << pi, failures, table_projects >>
            \/ /\ results' = [results EXCEPT !.total_monitors = @ + 1]
               /\ ProjectRaises("search")
               /\ UNCHANGED matches
    /\ UNCHANGED << clock, runs, table_global, table_states, global_config,
                    projects, states, search_end, search_start, monitors, mi,
                    action, previous_log_lines, published, metrics, processed,
                    callVars, requested,
                    detected_runs, last_change, earlier >>

\* put_metric_data raised: _process_project, lines 158-159, logs and goes on.
MetricErrorPropagates ==
    ProjectRaises("metric")

MetricError ==
    /\ MayFail
    /\ failures' = Append(failures, LogEntry("metric"))
    /\ pc' = "evaluate"
    /\ UNCHANGED << pi, table_projects >>

\* The metric is sent for detections only.
MetricOnlyOnDetections ==
    /\ pc = "metric"
    /\ IF global_config.disable_custom_metrics \/ matches = 0
       THEN /\ pc' = "evaluate"
            /\ UNCHANGED << metrics, failures, pi, table_projects >>
       ELSE \/ /\ metrics' = Append(metrics, LogEntry(matches))
               /\ pc' = "evaluate"
               /\ UNCHANGED << failures, pi, table_projects >>
            \/ /\ MetricError
               /\ UNCHANGED metrics
    /\ UNCHANGED << clock, runs, table_global, table_states, global_config,
                    projects, states, search_end, results, loopVars,
                    published, processed, callVars, requested,
                    detected_runs, last_change, earlier >>

\* _process_project, lines 149-159: the metric.
Metric ==
    /\ pc = "metric"
    /\ IF global_config.disable_custom_metrics
       THEN /\ pc' = "evaluate"
            /\ UNCHANGED << metrics, failures, pi, table_projects >>
       ELSE \/ /\ metrics' = Append(metrics, LogEntry(matches))
               /\ pc' = "evaluate"
               /\ UNCHANGED << failures, pi, table_projects >>
            \/ /\ MetricError
               /\ UNCHANGED metrics
    /\ UNCHANGED << clock, runs, table_global, table_states, global_config,
                    projects, states, search_end, results, loopVars,
                    published, processed, callVars, requested,
                    detected_runs, last_change, earlier >>

\* The STATE record of the monitor at hand, in the list loaded at line 66.
CurrentState == find_state(states, projects[pi].sk, monitors[mi].keyword)

\* _process_project, lines 161-163.
Evaluate ==
    /\ pc = "evaluate"
    /\ action' = evaluate_state(CurrentState, matches, monitors[mi],
                                global_config, clock)
    /\ pc' = "notify"
    /\ UNCHANGED << clock, runs, table_global, table_projects, table_states,
                    global_config, projects, states, search_end, results, pi,
                    search_start, monitors, mi, matches, previous_log_lines,
                    published, metrics, processed, failures, callVars, requested,
                    detected_runs, last_change, earlier >>

\* sns_publish raised (notifier.py, lines 229-231: logged and raised again),
\* so line 205 is not reached.
PublishErrorSwallowed ==
    /\ MayFail
    /\ failures' = Append(failures, LogEntry("publish"))
    /\ results' = [results EXCEPT !.notifications_sent = @ + 1]
    /\ pc' = "update"
    /\ UNCHANGED << published, pi, table_projects >>

PublishError ==
    /\ ProjectRaises("publish")
    /\ UNCHANGED << published, results >>

\* _process_project, lines 173-190: whether a notification is due, and
\* its context lines.  The backend answers the context request with pages.
Context ==
    /\ pc = "notify"
    /\ IF action \notin {"NOTIFY", "RENOTIFY", "RECOVER"}
       THEN /\ pc' = "update"
            /\ previous_log_lines' = <<>>
            /\ UNCHANGED << pi, failures, table_projects, requested >>
       ELSE IF /\ matches > 0
               /\ action \in {"NOTIFY", "RENOTIFY"}
               /\ ContextLinesCount(monitors[mi], projects[pi]) > 0
               /\ FirstMatch.timestamp # 0
               /\ FirstMatch.logStreamName # ""
       THEN \E pages \in ContextPages :
               LET got == get_previous_log_lines(
                              FirstMatch.logStreamName, FirstMatch.timestamp,
                              ContextLinesCount(monitors[mi], projects[pi]),
                              FirstMatch.message, pages)
               IN  /\ got.failed => MayFail
                   /\ requested' =
                          IF got.requests > 0
                          THEN Append(requested, LogEntry(got.requests))
                          ELSE requested
                   /\ IF got.raised
                      THEN /\ ProjectRaises("context")
                           /\ UNCHANGED previous_log_lines
                      ELSE /\ previous_log_lines' = got.lines
                           /\ failures' =
                                  IF got.failed
                                  THEN Append(failures, LogEntry("context"))
                                  ELSE failures
                           /\ pc' = "publish"
                           /\ UNCHANGED << pi, table_projects >>
       ELSE /\ pc' = "publish"
            /\ previous_log_lines' = <<>>
            /\ UNCHANGED << pi, failures, table_projects, requested >>
    /\ UNCHANGED << clock, runs, table_global, table_states, global_config,
                    projects, states, search_end, results, search_start,
                    monitors, mi, matches, action, published, metrics,
                    processed, callVars, detected_runs,
                    last_change, earlier >>

\* _process_project, lines 192-205: the notification is rendered and
\* published.
Notify ==
    /\ pc = "publish"
    /\ \/ /\ published' = Append(published, LogEntry(action))
          /\ results' = [results EXCEPT !.notifications_sent = @ + 1]
          /\ pc' = "update"
          /\ UNCHANGED << pi, failures, table_projects >>
       \/ PublishError
    /\ UNCHANGED << clock, runs, table_global, table_states, global_config,
                    projects, states, search_end, loopVars, metrics, processed,
                    callVars, requested,
                    detected_runs, last_change, earlier >>

\* The item the state update of lines 207-218 leaves for the action.
DeletingNewStateItem(item, act, state, n, end_iso) ==
    IF act \in {"NOTIFY", "RENOTIFY"}
    THEN update_state(item, "ALARM", end_iso, n, 1)
    ELSE IF act = "SUPPRESS"
    THEN update_state_suppress(item, n, 1)
    ELSE IF act \in {"RECOVER", "RECOVER_SILENT"}
    THEN NoItem
    ELSE item

\* The same update with a streak that starts again at 1 in every detecting
\* run.
StreakRestartingNewStateItem(item, act, state, n, end_iso) ==
    LET streak == IF n > 0 THEN 1 ELSE 0
    IN  IF act \in {"NOTIFY", "RENOTIFY"}
        THEN update_state(item, "ALARM", end_iso, n, streak)
        ELSE IF act = "SUPPRESS"
        THEN update_state_suppress(item, n, streak)
        ELSE IF act \in {"RECOVER", "RECOVER_SILENT"}
        THEN update_state(item, "OK", end_iso, 0, 0)
        ELSE item

NewStateItem(item, act, state, n, end_iso) ==
    LET streak == IF n > 0
                  THEN (IF state.exists /\ state.current_streak # None
                        THEN state.current_streak ELSE 0) + 1
                  ELSE 0
    IN  IF act \in {"NOTIFY", "RENOTIFY"}
        THEN update_state(item, "ALARM", end_iso, n, streak)
        ELSE IF act = "SUPPRESS"
        THEN update_state_suppress(item, n, streak)
        ELSE IF act \in {"RECOVER", "RECOVER_SILENT"}
        THEN update_state(item, "OK", end_iso, 0, 0)
        ELSE item

\* _process_project, lines 207-218: the STATE update.
UpdateState ==
    /\ pc = "update"
    /\ \/ /\ table_states' =
                 [table_states EXCEPT
                    ![StateSk(projects[pi].sk, monitors[mi].keyword)] =
                        NewStateItem(@, action, CurrentState, matches, search_end)]
          /\ processed' = Append(processed, LogEntry(action))
          /\ detected_runs' =
                 [detected_runs EXCEPT
                    ![StateSk(projects[pi].sk, monitors[mi].keyword)] =
                        AfterRun(@, matches)]
          /\ last_change' =
                 [last_change EXCEPT
                    ![StateSk(projects[pi].sk, monitors[mi].keyword)] =
                        AfterAction(@, action)]
          /\ mi' = mi + 1
          /\ pc' = "monitor"
          /\ UNCHANGED << pi, failures, table_projects >>
       \/ /\ action # "NOOP"
          /\ ProjectRaises("update_state")
          /\ UNCHANGED << table_states, mi, processed, detected_runs, last_change >>
    /\ UNCHANGED << clock, runs, table_global, global_config, projects, states,
                    search_end, results, search_start, monitors, matches,
                    action, previous_log_lines, published, metrics, callVars, requested,
                    earlier >>

\* _process_project, lines 220-222: the watermark.
UpdateTimestamp ==
    /\ pc = "timestamp"
    /\ \/ /\ table_projects' = SetTimestamp(table_projects, projects[pi].sk, search_end)
          /\ results' = [results EXCEPT !.processed_projects = @ + 1]
          /\ pi' = pi + 1
          /\ pc' = "projects"
          /\ UNCHANGED failures
       \/ /\ ProjectRaises("update_project_timestamp")
          /\ UNCHANGED results
    /\ UNCHANGED << clock, runs, table_global, table_states, global_config,
                    projects, states, search_end, loopVars, published, metrics,
                    processed, callVars, requested,
                    detected_runs, last_change, earlier >>

\* The invocation ends (returns the summary or raises); the next one is
\* scheduled ScheduleMin later.
Finish ==
    /\ pc \in {"done", "raised"}
    /\ pc' = "idle"
    /\ clock' = clock + ScheduleMin
    /\ global_config' = NoGlobal
    /\ projects' = <<>>
    /\ states' = NoStates
    /\ search_end' = None
    /\ results' = ZeroResults
    /\ pi' = 0
    /\ search_start' = None
    /\ monitors' = <<>>
    /\ mi' = 0
    /\ matches' = 0
    /\ action' = "NONE"
    /\ previous_log_lines' = <<>>
    /\ published' = <<>>
    /\ metrics' = <<>>
    /\ processed' = <<>>
    /\ failures' = <<>>
    /\ requested' = <<>>
    /\ detected_runs' = AfterInvocation(detected_runs, failures)
    /\ earlier' = Invocation(projects, search_end, failures)
    /\ UNCHANGED << last_change, runs, table_global, table_projects, table_states,
                    callVars >>

Next ==
    \/ Invoke
    \/ LoadConfig
    \/ NextProject
    \/ Search
    \/ Metric
    \/ Evaluate
    \/ Context
    \/ Notify
    \/ UpdateState
    \/ UpdateTimestamp
    \/ Finish

Spec == Init /\ [][Next]_vars

\* ------------------------------------------- evaluate_state alone
\* The STATE records evaluate_state is applied to: none, or a record as the
\* updates leave it (ALARM after a notification at some earlier search
\* end, OK after a recovery), the searches ending before the clock.
StateItems(clk) ==
    {NoItem} \cup
    {[exists |-> TRUE, status |-> s, last_detected_at |-> t,
      last_notified_at |-> t, detection_count |-> 1,
      current_streak |-> IF s = "ALARM" THEN 1 ELSE 0] :
        s \in {"OK", "ALARM"},
        t \in 0..(clk - INGESTION_DELAY_BUFFER_MIN)}

\* The inputs of one evaluation: a global config, a monitor of a project
\* of the PROJECT records recs, a match count and the monitor's record.
EvalInitOver(recs) ==
    /\ clock = 4 * ScheduleMin
    /\ runs = 1
    /\ table_global \in GlobalRecords \ {NoGlobal}
    /\ table_projects = recs
    /\ pc = "evaluate"
    /\ global_config = table_global
    /\ projects = table_projects
    /\ search_end = clock - INGESTION_DELAY_BUFFER_MIN
    /\ pi \in {1, 3}
    /\ search_start = search_end - DEFAULT_SEARCH_WINDOW_MIN
    /\ monitors = FlattenMonitors(projects[pi].monitors)
    /\ mi = 1
    /\ matches \in 0..MaxMatches
    /\ results = [ZeroResults EXCEPT !.total_monitors = 1,
                                     !.total_detections = matches]
    /\ \E item \in StateItems(clock) :
          table_states =
              [NoStates EXCEPT ![StateSk(projects[pi].sk, monitors[mi].keyword)] = item]
    /\ states = table_states
    /\ action = "NONE"
    /\ previous_log_lines = <<>>
    /\ published = <<>>
    /\ metrics = <<>>
    /\ processed = <<>>
    /\ failures = <<>>
    /\ requested = <<>>
    /\ detected_runs = RunsOf(table_states)
    /\ last_change = ChangesOf(table_states)
    /\ earlier = NoEarlier
    /\ call = NoCall
    /\ ret = NoCall

EvalInit == \E r3 \in {None, 0, 7} : EvalInitOver(ProjectRecords(r3))

EvalNext == Evaluate

EvalSpec == EvalInit /\ [][EvalNext]_vars

\* ------------------------------------------ one monitor's steps 5-7
\* The evaluation, the notification and the state update of one monitor (the
\* body of the loop from line 161 on), from the same inputs.
MonitorNext ==
    \/ Evaluate
    \/ Context
    \/ Notify
    \/ UpdateState

MonitorSpec == EvalInit /\ [][MonitorNext]_vars

\* ------------------------------------ the context lines of a monitor
\* The same steps for monitors and projects with a context_log_lines of
\* their own: absent (or null), 0, or a number of lines.
ContextCounts == {None, 0, 1, MaxLimit}

WithContextLines(recs, monitor_count, project_count) ==
    [i \in DOMAIN recs |->
        [recs[i] EXCEPT
            !.context_log_lines = project_count,
            !.monitors = [k \in DOMAIN @ |->
                            [@[k] EXCEPT !.context_log_lines = monitor_count]]]]

CountInit ==
    \E monitor_count, project_count \in ContextCounts :
        EvalInitOver(WithContextLines(ProjectRecords(None),
                                      monitor_count, project_count))

CountSpec == CountInit /\ [][MonitorNext]_vars

\* ------------------------------------ the search window of a project
\* The handler over projects that were searched before (a watermark of an
\* earlier invocation, one minute into the table's time) or never.
Watermarks == {None, 1}

WindowInit ==
    /\ clock = 2 * ScheduleMin
    /\ runs = 0
    /\ table_global = [exists |-> TRUE, notify_on_recover |-> TRUE,
                       renotify_min |-> 5, disable_custom_metrics |-> FALSE]
    /\ \E w1, w3 \in Watermarks :
          table_projects =
              SetTimestamp(SetTimestamp(ProjectRecords(None), "p1", w1), "p3", w3)
    /\ table_states = NoStates
    /\ pc = "idle"
    /\ global_config = NoGlobal
    /\ projects = <<>>
    /\ states = NoStates
    /\ search_end = None
    /\ results = ZeroResults
    /\ pi = 0
    /\ search_start = None
    /\ monitors = <<>>
    /\ mi = 0
    /\ matches = 0
    /\ action = "NONE"
    /\ previous_log_lines = <<>>
    /\ published = <<>>
    /\ metrics = <<>>
    /\ processed = <<>>
    /\ failures = <<>>
    /\ requested = <<>>
    /\ detected_runs = RunsOf(table_states)
    /\ last_change = ChangesOf(table_states)
    /\ earlier = NoEarlier
    /\ call = NoCall
    /\ ret = NoCall

WindowSpec == WindowInit /\ [][Next]_vars

\* ------------------------------------ the streak of a monitor
\* The handler over tables that one earlier invocation (whose search ended
\* at EarlierSearchEnd) left behind: no record, a record of a recovered
\* monitor, or a record in alarm after one or more detecting runs.
EarlierSearchEnd == ScheduleMin - INGESTION_DELAY_BUFFER_MIN

EarlierRecords ==
    {NoItem}
    \cup {[exists |-> TRUE, status |-> "OK",
           last_detected_at |-> EarlierSearchEnd,
           last_notified_at |-> EarlierSearchEnd,
           detection_count |-> 1, current_streak |-> 0]}
    \cup {[exists |-> TRUE, status |-> "ALARM",
           last_detected_at |-> EarlierSearchEnd,
           last_notified_at |-> EarlierSearchEnd,
           detection_count |-> s, current_streak |-> s] : s \in 1..MaxRuns}

StreakInit ==
    /\ clock = 2 * ScheduleMin
    /\ runs = 0
    /\ table_global = [exists |-> TRUE, notify_on_recover |-> TRUE,
                       renotify_min |-> 10, disable_custom_metrics |-> FALSE]
    /\ table_projects =
           SetTimestamp(SetTimestamp(ProjectRecords(None), "p1", EarlierSearchEnd),
                        "p3", EarlierSearchEnd)
    /\ \E r1a, r1b, r3a \in EarlierRecords :
          table_states =
              [NoStates EXCEPT ![StateSk("p1", "a")] = r1a,
                               ![StateSk("p1", "b")] = r1b,
                               ![StateSk("p3", "a")] = r3a]
    /\ pc = "idle"
    /\ global_config = NoGlobal
    /\ projects = <<>>
    /\ states = NoStates
    /\ search_end = None
    /\ results = ZeroResults
    /\ pi = 0
    /\ search_start = None
    /\ monitors = <<>>
    /\ mi = 0
    /\ matches = 0
    /\ action = "NONE"
    /\ previous_log_lines = <<>>
    /\ published = <<>>
    /\ metrics = <<>>
    /\ processed = <<>>
    /\ failures = <<>>
    /\ requested = <<>>
    /\ detected_runs = RunsOf(table_states)
    /\ last_change = ChangesOf(table_states)
    /\ earlier = NoEarlier
    /\ call = NoCall
    /\ ret = NoCall

StreakSpec == StreakInit /\ [][Next]_vars

\* ------------------------------------ the monitors of a project
\* The handler over projects with several configured monitors: keyword
\* lists (also an empty one), single keywords and an empty keyword, with
\* settings of their own that tell the configured monitors apart.
MonitorConfigs ==
    { << Monitor(<<"b", "a">>, TRUE, TRUE, 10) >>,
      << Monitor(<<"b">>, FALSE, TRUE, 0), Monitor(<<"a">>, TRUE, FALSE, None) >>,
      << Monitor(<<"">>, FALSE, FALSE, None), Monitor(<<"a">>, FALSE, TRUE, 5) >>,
      << Monitor(<<>>, TRUE, TRUE, 5), Monitor(<<"b">>, FALSE, FALSE, None) >> }

WithMonitors(recs, project_sk, monitors_config) ==
    [i \in DOMAIN recs |->
        IF recs[i].sk = project_sk
        THEN [recs[i] EXCEPT !.monitors = monitors_config]
        ELSE recs[i]]

\* The first invocation over a table whose project p3 has one of the given
\* monitor lists.
MonitorsInit(configs) ==
    /\ clock = 2 * ScheduleMin
    /\ runs = 0
    /\ table_global = [exists |-> TRUE, notify_on_recover |-> TRUE,
                       renotify_min |-> 5, disable_custom_metrics |-> FALSE]
    /\ \E monitors_config \in configs :
          table_projects = WithMonitors(ProjectRecords(None), "p3", monitors_config)
    /\ table_states = NoStates
    /\ pc = "idle"
    /\ global_config = NoGlobal
    /\ projects = <<>>
    /\ states = NoStates
    /\ search_end = None
    /\ results = ZeroResults
    /\ pi = 0
    /\ search_start = None
    /\ monitors = <<>>
    /\ mi = 0
    /\ matches = 0
    /\ action = "NONE"
    /\ previous_log_lines = <<>>
    /\ published = <<>>
    /\ metrics = <<>>
    /\ processed = <<>>
    /\ failures = <<>>
    /\ requested = <<>>
    /\ detected_runs = RunsOf(table_states)
    /\ last_change = ChangesOf(table_states)
    /\ earlier = NoEarlier
    /\ call = NoCall
    /\ ret = NoCall

ListInit == MonitorsInit(MonitorConfigs)

ListSpec == ListInit /\ [][Next]_vars

\* The same keyword more than once among the monitors of a project: twice
\* in one list, or in two configured monitors.
DuplicateConfigs ==
    { << Monitor(<<"a", "a">>, TRUE, FALSE, None) >>,
      << Monitor(<<"a">>, FALSE, FALSE, None), Monitor(<<"a">>, FALSE, TRUE, 10) >> }

DuplicateInit == MonitorsInit(DuplicateConfigs)

DuplicateSpec == DuplicateInit /\ [][Next]_vars

\* -------------------------------------- functions called on their own
handlerVars ==
    << clock, runs, table_global, table_projects, table_states, pc,
       global_config, projects, states, search_end, results, pi,
       search_start, monitors, mi, matches, action, previous_log_lines,
       published, metrics, processed, failures, requested, detected_runs,
       last_change, earlier >>

\* The handler is not running while a function is called on its own.
HandlerIdle ==
    /\ clock = 2 * ScheduleMin
    /\ runs = 0
    /\ table_global = NoGlobal
    /\ table_projects = ProjectRecords(None)
    /\ table_states = NoStates
    /\ pc = "idle"
    /\ global_config = NoGlobal
    /\ projects = <<>>
    /\ states = NoStates
    /\ search_end = None
    /\ results = ZeroResults
    /\ pi = 0
    /\ search_start = None
    /\ monitors = <<>>
    /\ mi = 0
    /\ matches = 0
    /\ action = "NONE"
    /\ previous_log_lines = <<>>
    /\ published = <<>>
    /\ metrics = <<>>
    /\ processed = <<>>
    /\ failures = <<>>
    /\ requested = <<>>
    /\ detected_runs = RunsOf(table_states)
    /\ last_change = ChangesOf(table_states)
    /\ earlier = NoEarlier

\* The sequences over S of length up to n.
SeqsUpTo(S, n) == UNION {[1..k -> S] : k \in 0..n}

\* ------------------------------------- get_previous_log_lines alone
\* The timestamp of the detected event, and the timestamps of the events of
\* its stream: before it, or the same (a burst).
TargetTimestamp == 2

EventTimestamps == {TargetTimestamp - 1, TargetTimestamp}

\* Messages of events: two texts, one of them also with trailing whitespace.
EventMessages == {Message("m", 0), Message("m", 1), Message("n", 0)}

Events == {Event(ts, m) : ts \in EventTimestamps, m \in EventMessages}

\* The match_message argument: None, "", or a message.
MatchMessages == {NoMessage, Message("", 0)} \cup EventMessages

\* The limit argument.
Limits == (0 - 1)..MaxLimit

\* The answers of the backend that holds the events evs: all in one
\* response without a token, in two responses the second of which ends the
\* pagination (no token, or the token of the first), or with a failed first
\* or second request.
Pagings(evs) ==
    { << Response(TRUE, evs, "") >>, << Response(FALSE, <<>>, "") >> }
    \cup { << Response(TRUE, SubSeq(evs, 1, j), "t1"),
              Response(TRUE, SubSeq(evs, j + 1, Len(evs)), tok) >> :
              j \in 0..Len(evs), tok \in {"", "t1"} }
    \cup { << Response(TRUE, SubSeq(evs, 1, j), "t1"),
              Response(FALSE, <<>>, "") >> : j \in 0..Len(evs) }

ContextInit ==
    /\ HandlerIdle
    /\ \E evs \in SeqsUpTo(Events, MaxEvents) :
       \E pages \in Pagings(evs) :
          call \in [fn : {"get_previous_log_lines"},
                    stream_name : {"", "s"},
                    timestamp : {TargetTimestamp},
                    limit : Limits,
                    match_message : MatchMessages,
                    all_events : {evs},
                    pages : {pages}]
    /\ ret = NoCall

GetPreviousLogLines ==
    /\ call.fn = "get_previous_log_lines"
    /\ ret = NoCall
    /\ ret' = get_previous_log_lines(call.stream_name, call.timestamp,
                                     call.limit, call.match_message, call.pages)
    /\ UNCHANGED << handlerVars, call >>

ContextNext == GetPreviousLogLines

ContextSpec == ContextInit /\ [][ContextNext]_vars

\* ------------------- the pagination loop of get_previous_log_lines
\* The loop of lines 125-137, one request per step.  call holds the local
\* variables of the running call and the responses it has received; ret is
\* set when the loop is left.
LoopTokens == {"", "t1", "t2"}

LoopEvents ==
    { <<>>, << Event(1, Message("l", 1)) >>,
      << Event(1, Message("l", 0)), Event(2, Message("m", 0)) >> }

LoopInit ==
    /\ HandlerIdle
    /\ call = [fn |-> "get_log_events", prev_token |-> "", nextToken |-> "",
               all_events |-> <<>>, responses |-> <<>>]
    /\ ret = NoCall

\* Line 128 with the first response only.
KeepingLatest(all_events, events) == events

\* Line 128: all_events.extend(events).
Extend(all_events, events) == all_events \o events

\* Line 132: there is no token, or it is the token of the response before.
NoMoreData(next_token, prev_token) == next_token = "" \/ next_token = prev_token

\* The backend answers with a response that the loop goes on from (lines
\* 126-135); it sends at most MaxResponses of these.
MoreData ==
    /\ call.fn = "get_log_events"
    /\ ret = NoCall
    /\ Len(call.responses) < MaxResponses
    /\ \E events \in LoopEvents, next_token \in LoopTokens :
          /\ ~NoMoreData(next_token, call.prev_token)
          /\ call' = [call EXCEPT
                         !.all_events = Extend(@, events),
                         !.prev_token = next_token,
                         !.nextToken = next_token,
                         !.responses = Append(@, Response(TRUE, events, next_token))]
    /\ UNCHANGED << handlerVars, ret >>

\* The backend answers with a response that ends the loop (lines 126-133).
LastData ==
    /\ call.fn = "get_log_events"
    /\ ret = NoCall
    /\ \E events \in LoopEvents, next_token \in LoopTokens :
          /\ NoMoreData(next_token, call.prev_token)
          /\ call' = [call EXCEPT
                         !.all_events = Extend(@, events),
                         !.responses = Append(@, Response(TRUE, events, next_token))]
          /\ ret' = [failed |-> FALSE, all_events |-> Extend(call.all_events, events),
                     requests |-> Len(call.responses) + 1]
    /\ UNCHANGED handlerVars

\* The request raises (lines 156-158): the call returns no lines.
RequestRaises ==
    /\ call.fn = "get_log_events"
    /\ ret = NoCall
    /\ call' = [call EXCEPT !.responses = Append(@, Response(FALSE, <<>>, ""))]
    /\ ret' = [failed |-> TRUE, all_events |-> <<>>,
               requests |-> Len(call.responses) + 1]
    /\ UNCHANGED handlerVars

LoopNext ==
    \/ MoreData
    \/ LastData
    \/ RequestRaises

LoopSpec == LoopInit /\ [][LoopNext]_vars

\* The call keeps running, and the backend answers every request: after
\* finitely many responses with one that ends the pagination.
LoopLiveSpec == LoopSpec /\ WF_vars(LoopNext) /\ SF_vars(LastData \/ RequestRaises)

\* ------------------------- filter_log_events_with_pagination alone
\* The events of one response, and the tokens a response may carry.
PageEvents ==
    { <<>>,
      << Event(1, Message("m", 0)) >>,
      << Event(2, Message("n", 0)), Event(1, Message("m", 0)) >> }

PageTokens == {"", "t1", "t2"}

\* A response: events with or without a token, or a raised request.
SearchPages ==
    {Page(TRUE, evs, tok) : evs \in PageEvents, tok \in PageTokens}
    \cup {Page(FALSE, <<>>, "")}

\* The answers the backend holds for one search: up to MaxPages responses,
\* the last of which ends the pagination (no token, or a raised request).
SearchPagings ==
    {pages \in SeqsUpTo(SearchPages, MaxPages) :
        /\ pages # <<>>
        /\ \/ ~pages[Len(pages)].ok
           \/ pages[Len(pages)].nextToken = ""}

SearchInit ==
    /\ HandlerIdle
    /\ call \in [fn : {"filter_log_events_with_pagination"},
                 pages : SearchPagings]
    /\ ret = NoCall

\* raw_matches = filter_log_events_with_pagination(...).
FilterLogEvents ==
    /\ call.fn = "filter_log_events_with_pagination"
    /\ ret = NoCall
    /\ ret' = filter_log_events_with_pagination(call.pages)
    /\ UNCHANGED << handlerVars, call >>

SearchNext == FilterLogEvents

SearchSpec == SearchInit /\ [][SearchNext]_vars

\* ------------------------------------------------ sns_publish alone
\* Subjects up to and over the limit of the title, and bodies around the
\* size limit of the message: by their characters, by their UTF-8 bytes
\* and by their bytes in JSON.
CharKinds == {"ascii", "escaped", "wide"}

Subjects ==
    { <<>>, << Run("ascii", 1) >>, << Run("ascii", 99) >>,
      << Run("ascii", 100) >>, << Run("ascii", 101) >>,
      << Run("wide", 101) >>, << Run("ascii", 99), Run("wide", 2) >> }

BodyLengths ==
    {1, 50000, 87040, 100000, 131000, 200000, 261120, 262060, 262061, 300000}

Bodies ==
    { <<>> }
    \cup { << Run(kind, n) >> : kind \in CharKinds, n \in BodyLengths }
    \cup { << Run("ascii", SNS_MAX_MESSAGE_BYTES - EnvelopeReserve - 1),
              Run("wide", n) >> : n \in {1, 50000} }
    \cup { << Run("wide", 50000), Run("ascii", n) >> : n \in BodyLengths }

PublishInit ==
    /\ HandlerIdle
    /\ call \in [fn : {"sns_publish"},
                 message : [subject : Subjects, body : Bodies]]
    /\ ret = NoCall

\* sns_publish(topic_arn, message).
SnsPublish ==
    /\ call.fn = "sns_publish"
    /\ ret = NoCall
    /\ ret' = sns_publish(call.message)
    /\ UNCHANGED << handlerVars, call >>

PublishNext == SnsPublish

PublishSpec == PublishInit /\ [][PublishNext]_vars

\* --------------------------------------------- render_message alone
\* Templates: the default subject, a subject showing the count and the log
\* lines; with and without a body of their own.
RenderTemplates ==
    [subject : { << "[", "{severity}", "] ", "{project}", " - ", "{keyword}" >>,
                 << "{count}", "|", "{log_lines}" >> },
     body : {"", "template body"}]

RenderProjects ==
    [sk : {"p1"}, display_name : {Absent, "Alpha"},
     override_log_group : {Absent}, mention : {Absent, "@team"}]

RenderMonitors ==
    [keyword : {"ERROR"}, severity : {Absent, "critical"},
     mention : {Absent, "@oncall"}]

RenderGlobals ==
    [defaults_severity : {"warning"}, source_log_group : {"/logs"},
     max_log_lines : {None, 0, 1, 2}]

\* Matched events: a message, the same with trailing whitespace, another
\* (of an event without timestamp) and a blank one.
RenderEvents ==
    { LogEvent(Message("m", 0), "s1", 1),
      LogEvent(Message("m", 1), "s2", 2),
      LogEvent(Message("n", 0), "s1", None),
      LogEvent(Message("", 1), "s1", 3) }

RenderStates ==
    { NoItem, [NoItem EXCEPT !.exists = TRUE, !.status = "ALARM",
                             !.current_streak = 2] }

RenderInit ==
    /\ HandlerIdle
    /\ call \in [fn : {"render_message"},
                 template : RenderTemplates,
                 project : RenderProjects,
                 monitor : RenderMonitors,
                 matches : SeqsUpTo(RenderEvents, MaxLines),
                 action : {"NOTIFY", "RENOTIFY", "RECOVER"},
                 global_config : RenderGlobals,
                 state : RenderStates,
                 previous_log_lines : { <<>>, << Message("l", 0) >> }]
    /\ ret = NoCall

\* message = render_message(...).
RenderMessage ==
    /\ call.fn = "render_message"
    /\ ret = NoCall
    /\ ret' = render_message(call.template, call.project, call.monitor,
                             call.matches, call.action, call.global_config,
                             call.state, call.previous_log_lines, clock)
    /\ UNCHANGED << handlerVars, call >>

RenderNext == RenderMessage

RenderSpec == RenderInit /\ [][RenderNext]_vars

\* ------------------------------------- apply_exclusions_regex alone
\* Messages of log events, as characters; the empty one is also the message
\* of an event without a message key.
LogMessages ==
    {<<>>, <<"a">>, <<"b">>, <<"a", "b">>, <<"b", "a">>}

LogEvents == {[message |-> m] : m \in LogMessages}

\* Pattern strings "a", "ab", "^b", ".a", "[a" (re.error: unterminated
\* character set) and "a{99999999999}" (OverflowError: the repetition number
\* is too large).
Patterns ==
    { Pattern("ok", FALSE, <<"a">>),
      Pattern("ok", FALSE, <<"a", "b">>),
      Pattern("ok", TRUE, <<"b">>),
      Pattern("ok", FALSE, <<".", "a">>),
      Pattern("re.error", FALSE, <<>>),
      Pattern("OverflowError", FALSE, <<>>) }

ExclusionInit ==
    /\ HandlerIdle
    /\ call \in [fn : {"apply_exclusions_regex"},
                 events : SeqsUpTo(LogEvents, MaxEvents),
                 exclude_patterns :
                     {PatternList(FALSE, <<>>)}
                     \cup {PatternList(TRUE, l) :
                              l \in SeqsUpTo(Patterns, MaxPatterns)}]
    /\ ret = NoCall

\* matches = apply_exclusions_regex(raw_matches, excludes).
ApplyExclusions ==
    /\ call.fn = "apply_exclusions_regex"
    /\ ret = NoCall
    /\ LET got == apply_exclusions_regex(call.events, call.exclude_patterns)
       IN  ret' = [raised |-> got.raised, events |-> got.events,
                   applied |-> 1, first |-> got.events]
    /\ UNCHANGED << handlerVars, call >>

\* The filter is applied to what it returned, with the same patterns.
ApplyExclusionsAgain ==
    /\ call.fn = "apply_exclusions_regex"
    /\ ret # NoCall
    /\ ret.applied = 1
    /\ ~ret.raised
    /\ LET got == apply_exclusions_regex(ret.events, call.exclude_patterns)
       IN  ret' = [raised |-> got.raised, events |-> got.events,
                   applied |-> 2, first |-> ret.events]
    /\ UNCHANGED << handlerVars, call >>

ExclusionNext ==
    \/ ApplyExclusions
    \/ ApplyExclusionsAgain

ExclusionSpec == ExclusionInit /\ [][ExclusionNext]_vars

\* ----------------------------------------- resolve_sns_topic alone
\* The monitors, projects and global configurations the target is resolved
\* for.
TopicMonitors ==
    [severity : {Absent, Null, ""} \cup Severities,
     override_sns_topic : {Absent, Null, "", "arn:monitor"}]

TopicProjects ==
    {[override_sns_topics |-> [kind |-> k, map |-> [s \in Severities |-> Absent]]] :
        k \in {"absent", "null"}}
    \cup
    {[override_sns_topics |-> [kind |-> "map", map |-> m]] :
        m \in [Severities -> {Absent, Null, "arn:project-a", "arn:project-b"}]}

TopicGlobals ==
    [defaults_severity : Severities,
     sns_topics : {[s \in Severities |-> "arn:global-" \o s]}]

TopicInit ==
    /\ HandlerIdle
    /\ call \in [fn : {"resolve_sns_topic"},
                 monitor : TopicMonitors,
                 project : TopicProjects,
                 global_config : TopicGlobals]
    /\ ret = NoCall

\* topic_arn = resolve_sns_topic(monitor, project, global_config).
ResolveSnsTopic ==
    /\ call.fn = "resolve_sns_topic"
    /\ ret = NoCall
    /\ ret' = resolve_sns_topic(call.monitor, call.project, call.global_config)
    /\ UNCHANGED << handlerVars, call >>

TopicNext == ResolveSnsTopic

TopicSpec == TopicInit /\ [][TopicNext]_vars

\* --------------------------------------------------------- properties
\* evaluate_state has returned for the monitor at hand.
Evaluated == pc \in {"notify", "publish", "update"}

\* The status of the monitor's loaded record, an absent record counting as OK.
LoadedStatus == IF CurrentState.exists THEN CurrentState.status ELSE "OK"

\* The effective re-notify interval as the specification words it: the
\* monitor's renotify_min when the key is present, else the global default.
StatedInterval ==
    IF monitors[mi].has_renotify_min THEN monitors[mi].renotify_min
    ELSE global_config.renotify_min

\* C1: with an absent record counting as OK, evaluate_state returns NOTIFY for
\* OK with matches, RECOVER for ALARM without matches when notify_on_recover
\* is true, RECOVER_SILENT for ALARM without matches when it is false, and
\* NOOP for OK without matches.
C1_EvaluateTable ==
    Evaluated =>
        /\ (LoadedStatus = "OK" /\ matches > 0) => action = "NOTIFY"
        /\ (LoadedStatus = "ALARM" /\ matches = 0
              /\ global_config.notify_on_recover) => action = "RECOVER"
        /\ (LoadedStatus = "ALARM" /\ matches = 0
              /\ ~global_config.notify_on_recover) => action = "RECOVER_SILENT"
        /\ (LoadedStatus = "OK" /\ matches = 0) => action = "NOOP"

\* An alarm without matches has been evaluated to the silent recovery.
C1_Witness ==
    /\ pc = "notify"
    /\ action = "RECOVER_SILENT"
    /\ CurrentState.exists
    /\ CurrentState.status = "ALARM"
    /\ matches = 0
    /\ ~global_config.notify_on_recover

\* C2: in ALARM with matches, evaluate_state returns RENOTIFY exactly when
\* the effective interval is set (not null) and the minutes since
\* last_notified_at are at least the interval, and SUPPRESS otherwise.
C2_RenotifyIffSetAndElapsed ==
    (Evaluated /\ LoadedStatus = "ALARM" /\ matches > 0) =>
        action =
            IF /\ StatedInterval # None
               /\ clock - CurrentState.last_notified_at >= StatedInterval
            THEN "RENOTIFY"
            ELSE "SUPPRESS"

\* C3: the effective interval is the monitor's renotify_min whenever the key
\* is present (also when it is null) and the global default only when the
\* key is absent; in ALARM with matches, a monitor with an explicit null
\* is suppressed, whatever the age of the notification and the default.
C3_ExplicitNullNeverRenotifies ==
    Evaluated =>
        /\ ResolveRenotify(monitors[mi], global_config) = StatedInterval
        /\ (/\ monitors[mi].has_renotify_min
            /\ monitors[mi].renotify_min = None
            /\ LoadedStatus = "ALARM"
            /\ matches > 0) => action = "SUPPRESS"

\* A monitor with an explicit null is suppressed although the global default
\* interval has elapsed since its notification.
C3_Witness ==
    /\ pc = "notify"
    /\ monitors[mi].has_renotify_min
    /\ monitors[mi].renotify_min = None
    /\ LoadedStatus = "ALARM"
    /\ matches > 0
    /\ action = "SUPPRESS"
    /\ global_config.renotify_min = 5
    /\ clock - CurrentState.last_notified_at > 2 * global_config.renotify_min

\* The index of a loaded project, and the monitors its loop goes through.
IndexOf(project_sk) == CHOOSE i \in DOMAIN projects : projects[i].sk = project_sk
MonitorsOf(i) == FlattenMonitors(projects[i].monitors)

\* The monitors of a project whose state update completed, in order.
ProcessedOf(project_sk) == SelectSeq(processed, LAMBDA e : e.project = project_sk)

\* The calls of _process_project whose exception leaves it.
ProjectSteps == {"search", "publish", "update_state", "update_project_timestamp"}

\* An exception left _process_project for this project.
Raised(project_sk) ==
    \E i \in DOMAIN failures :
        /\ failures[i].project = project_sk
        /\ failures[i].what \in ProjectSteps

\* Every monitor of the project went through all its steps, in order.
AllMonitorsProcessed(i) ==
    /\ Len(ProcessedOf(projects[i].sk)) = Len(MonitorsOf(i))
    /\ \A j \in DOMAIN MonitorsOf(i) :
          /\ ProcessedOf(projects[i].sk)[j].idx = j
          /\ ProcessedOf(projects[i].sk)[j].keyword = MonitorsOf(i)[j].keyword

\* The invocation wrote the project's watermark.
WatermarkWritten(i) ==
    table_projects[i].last_searched_at # projects[i].last_searched_at

\* C4: a project's last_searched_at is written only after all its monitors
\* have been processed in the invocation, and an invocation in which the
\* search, notification or state update of one of them raised leaves it as
\* it was.
C4_WatermarkAfterAllMonitors ==
    \A i \in DOMAIN projects :
        /\ WatermarkWritten(i) =>
              /\ table_projects[i].last_searched_at = search_end
              /\ AllMonitorsProcessed(i)
        /\ Raised(projects[i].sk) => ~WatermarkWritten(i)

\* The second monitor of p1 raised after the first one's state was written:
\* the watermark of the previous invocation stands.
C4_Witness ==
    /\ pc = "projects"
    /\ \E i \in DOMAIN failures :
          /\ failures[i].project = "p1"
          /\ failures[i].idx = 2
          /\ failures[i].what \in {"search", "publish", "update_state"}
    /\ \E i \in DOMAIN processed :
          processed[i].project = "p1" /\ processed[i].what = "NOTIFY"
    /\ projects[1].last_searched_at # None
    /\ table_projects[1].last_searched_at = projects[1].last_searched_at

\* C5: an exception raised while one enabled project is processed is caught
\* by handler: the project is skipped, the later projects are processed and
\* the invocation returns its summary.
C5_ProjectFailureIsolated ==
    /\ (\E p \in ProjectSks : Raised(p)) => pc # "raised"
    /\ \A i \in DOMAIN failures :
          failures[i].what \in ProjectSteps =>
              \A j \in DOMAIN processed :
                  processed[j].project = failures[i].project
                      => processed[j].idx < failures[i].idx
    /\ pc = "done" =>
          \A i \in DOMAIN projects :
              projects[i].enabled =>
                  \/ Raised(projects[i].sk)
                  \/ AllMonitorsProcessed(i) /\ WatermarkWritten(i)

\* The invocation returns after p1 raised and p3 was processed completely.
C5_Witness ==
    /\ pc = "done"
    /\ Raised("p1")
    /\ AllMonitorsProcessed(3)
    /\ WatermarkWritten(3)
    /\ results.processed_projects = 1

\* C6: a failed publish is raised again by sns_publish; for the monitor
\* whose publish failed no state update is written and notifications_sent
\* is not incremented.
C6_PublishFailureNotMasked ==
    /\ results.notifications_sent = Len(published)
    /\ \A i \in DOMAIN failures :
          failures[i].what = "publish" =>
              LET f == failures[i]
                  sk == StateSk(f.project, f.keyword)
              IN  /\ \A j \in DOMAIN processed :
                        ~(processed[j].project = f.project
                            /\ processed[j].idx = f.idx)
                  /\ \A j \in DOMAIN published :
                        ~(published[j].project = f.project
                            /\ published[j].idx = f.idx)
                  /\ (\A j \in DOMAIN processed :
                         ~(processed[j].project = f.project
                             /\ processed[j].keyword = f.keyword))
                        => table_states[sk] = states[sk]

\* The publish of a new incident failed: no record, nothing counted.
C6_Witness ==
    /\ pc = "projects"
    /\ action = "NOTIFY"
    /\ Len(failures) = 1
    /\ failures[1].what = "publish"
    /\ ~table_states[StateSk(failures[1].project, failures[1].keyword)].exists
    /\ results.notifications_sent = 0

\* C7 as stated: a publish failure fails the whole run, so an invocation in
\* which a publish failed ends by raising and never by returning.
C7_PublishFailureFailsRun ==
    (/\ pc \in {"done", "raised"}
     /\ \E i \in DOMAIN failures : failures[i].what = "publish")
        => pc = "raised"

\* C7, amended: a publish failure fails only the project being processed:
\* its loop is left and its watermark stays, the project is not counted as
\* processed, and the invocation goes on and returns; the invocation raises
\* only out of the loading of the configuration.
C7_PublishFailureFailsProjectOnly ==
    /\ pc = "raised" =>
          \A i \in DOMAIN failures :
              failures[i].what \in {"global_config", "table_read"}
    /\ \A i \in DOMAIN failures :
          failures[i].what = "publish" =>
              /\ pi > IndexOf(failures[i].project)
              /\ ~WatermarkWritten(IndexOf(failures[i].project))
    /\ pc = "done" =>
          results.processed_projects =
              Cardinality({i \in DOMAIN projects :
                              projects[i].enabled /\ ~Raised(projects[i].sk)})

\* The invocation returns after a publish of p1 failed; p3 was notified.
C7_Witness ==
    /\ pc = "done"
    /\ \E i \in DOMAIN failures :
          failures[i].what = "publish" /\ failures[i].project = "p1"
    /\ \E i \in DOMAIN published : published[i].project = "p3"
    /\ WatermarkWritten(3)

\* C8: without a global config record the invocation raises before any
\* project is searched, any metric or notification is emitted and any
\* alarm state or watermark is written.
C8_MissingGlobalConfigRaisesFirst ==
    ~table_global.exists =>
        /\ pc \in {"idle", "load", "raised"}
        /\ pc = "raised" =>
              /\ Len(failures) = 1
              /\ failures[1].what \in {"global_config", "table_read"}
        /\ results.total_monitors = 0
        /\ metrics = <<>>
        /\ published = <<>>
        /\ processed = <<>>
        /\ table_states = NoStates
        /\ \A i \in DOMAIN table_projects :
              table_projects[i].last_searched_at = None

\* The second invocation without a global config record has raised.
C8_Witness ==
    /\ ~table_global.exists
    /\ pc = "raised"
    /\ failures = << LogEntry("global_config") >>
    /\ runs = 2

\* C9: a failed metric emission is caught inside _process_project: the same
\* monitor is evaluated, notified and persisted, the later monitors are
\* processed and the watermark is advanced.
C9_MetricFailureIsolated ==
    \A i \in DOMAIN failures :
        failures[i].what = "metric" =>
            LET f == failures[i]
                k == IndexOf(f.project)
            IN  /\ pc # "raised"
                /\ (pi = k /\ mi = f.idx) =>
                      pc \in {"evaluate", "notify", "publish", "update"}
                /\ (pi > k /\ ~Raised(f.project)) =>
                      /\ AllMonitorsProcessed(k)
                      /\ WatermarkWritten(k)
                      /\ table_projects[k].last_searched_at = search_end

\* The metric of p1's first monitor failed; the monitor was notified and its
\* record written, the second monitor processed, the watermark advanced.
C9_Witness ==
    /\ pc = "done"
    /\ \E i \in DOMAIN failures :
          /\ failures[i].what = "metric"
          /\ failures[i].project = "p1"
          /\ failures[i].idx = 1
    /\ \E i \in DOMAIN published :
          /\ published[i].project = "p1"
          /\ published[i].idx = 1
          /\ published[i].what = "NOTIFY"
    /\ table_states["p1#a"].status = "ALARM"
    /\ table_states["p1#a"].last_notified_at = search_end
    /\ AllMonitorsProcessed(1)
    /\ table_projects[1].last_searched_at = search_end

\* C10: last_notified_at of a STATE record is written only by the update of
\* a NOTIFY or a RENOTIFY (of the monitor at hand); the updates of SUPPRESS,
\* RECOVER and RECOVER_SILENT, and NOOP, leave it as it is.
C10_NotifiedAtOnlyByNotify ==
    [][\A sk \in StateSks :
          table_states'[sk].last_notified_at # table_states[sk].last_notified_at
              => /\ pc = "update"
                 /\ action \in {"NOTIFY", "RENOTIFY"}
                 /\ sk = StateSk(projects[pi].sk, monitors[mi].keyword)]_vars

\* A SUPPRESS update has added to detection_count and left last_notified_at.
C10_Witness ==
    /\ pc = "monitor"
    /\ processed # <<>>
    /\ LET e == processed[Len(processed)]
           sk == StateSk(e.project, e.keyword)
       IN  /\ e.what = "SUPPRESS"
           /\ table_states[sk].detection_count > states[sk].detection_count
           /\ table_states[sk].last_notified_at # None
           /\ table_states[sk].last_notified_at = states[sk].last_notified_at

\* The state update of a monitor has just completed: matches and action are
\* its match count and its action, LastSk the key of its record.
UpdateDone == pc = "monitor" /\ mi > 1

LastSk == StateSk(projects[pi].sk, monitors[mi - 1].keyword)

\* The project was left by an exception raised after the evaluation of a
\* monitor: matches and action are that monitor's, FailedSk its key.
RaisedAfterEvaluation ==
    /\ pc = "projects"
    /\ failures # <<>>
    /\ failures[Len(failures)].what \in {"publish", "update_state"}

FailedSk ==
    StateSk(failures[Len(failures)].project, failures[Len(failures)].keyword)

LeavesMonitor == pc \in {"publish", "update"} /\ pc' \in {"monitor", "projects"}

CompletesUpdate == pc = "update" /\ pc' = "monitor"

CurrentSk == StateSk(projects[pi].sk, monitors[mi].keyword)

\* C12 as stated: a record is created on the first detection, is updated
\* on every run in which its monitor is evaluated, and is never deleted.
C12_UpdatedOnEveryEvaluatedRun ==
    [][/\ \A sk \in StateSks : table_states[sk].exists => table_states'[sk].exists
       /\ LeavesMonitor =>
             /\ matches > 0 => table_states'[CurrentSk].exists
             /\ table_states[CurrentSk].exists =>
                   table_states'[CurrentSk] # table_states[CurrentSk]]_vars

\* C12, amended: a record is created by the state update of the first
\* NOTIFY for its key, is rewritten by every completed state update whose
\* action is not NOOP (a NOOP writes nothing), is written by nothing else,
\* and is never deleted.
C12_WrittenByEveryUpdateButNoop ==
    [][/\ \A sk \in StateSks : table_states[sk].exists => table_states'[sk].exists
       /\ ~CompletesUpdate => table_states' = table_states
       /\ CompletesUpdate =>
             /\ \A sk \in StateSks \ {CurrentSk} :
                   table_states'[sk] = table_states[sk]
             /\ action = "NOOP" => table_states' = table_states
             /\ action # "NOOP" =>
                   /\ table_states'[CurrentSk].exists
                   /\ table_states'[CurrentSk] # table_states[CurrentSk]
             /\ (~table_states[CurrentSk].exists /\ table_states'[CurrentSk].exists)
                   => action = "NOTIFY" /\ matches > 0]_vars

\* The state update of a NOOP has left an existing record as it was.
C12_Witness ==
    /\ UpdateDone
    /\ action = "NOOP"
    /\ matches = 0
    /\ table_states[LastSk].exists
    /\ table_states[LastSk] = states[LastSk]

\* The log has an entry of this monitor of this project.
HasEntry(log, project_sk, idx) ==
    \E j \in DOMAIN log : log[j].project = project_sk /\ log[j].idx = idx

\* C13: a backend failure during the context retrieval, on the first or on
\* a later page, makes get_previous_log_lines return no lines instead of
\* raising: the NOTIFY or RENOTIFY goes on without context, is published,
\* and the alarm state is persisted.
C13_ContextFailureIsolated ==
    \A i \in DOMAIN failures :
        failures[i].what = "context" =>
            LET f == failures[i]
                k == IndexOf(f.project)
                sk == StateSk(f.project, f.keyword)
                at == pi = k /\ mi = f.idx
                left == pi > k \/ (pi = k /\ mi > f.idx)
                failedLater ==
                    \E j \in DOMAIN failures :
                        /\ j > i
                        /\ failures[j].project = f.project
                        /\ failures[j].idx = f.idx
                        /\ failures[j].what \in {"publish", "update_state"}
            IN  /\ pc # "raised"
                /\ at => /\ pc \in {"publish", "update"}
                         /\ action \in {"NOTIFY", "RENOTIFY"}
                         /\ previous_log_lines = <<>>
                /\ (at /\ pc = "update") => HasEntry(published, f.project, f.idx)
                /\ (left /\ ~failedLater) =>
                      /\ HasEntry(published, f.project, f.idx)
                      /\ HasEntry(processed, f.project, f.idx)
                      /\ table_states[sk].status = "ALARM"
                      /\ table_states[sk].last_notified_at = search_end

\* The context request of p1's first monitor failed; its NOTIFY was
\* published and its record written.
C13_Witness ==
    /\ pc = "done"
    /\ \E i \in DOMAIN failures :
          /\ failures[i].what = "context"
          /\ failures[i].project = "p1"
          /\ failures[i].idx = 1
    /\ \E i \in DOMAIN published :
          /\ published[i].project = "p1"
          /\ published[i].idx = 1
          /\ published[i].what = "NOTIFY"
    /\ table_states["p1#a"].status = "ALARM"
    /\ table_states["p1#a"].last_notified_at = search_end

\* A function called on its own has returned.
Returned == ret # NoCall

\* get_previous_log_lines was called with something to fetch, and no request
\* of it failed: call.all_events are the events it collected.
Fetched ==
    /\ Returned
    /\ call.fn = "get_previous_log_lines"
    /\ call.limit > 0
    /\ call.stream_name # ""
    /\ ~ret.failed

\* The last n elements of s, in their order.
Suffix(s, n) ==
    LET k == IF n < Len(s) THEN n ELSE Len(s)
    IN  [i \in 1..k |-> s[Len(s) - k + i]]

\* The lines C14 describes, for a given way of telling whether the event at
\* an index is the detected one: the stripped messages of the last limit
\* events before the last such index or, when there is none, of the last
\* limit events with a timestamp below the target.
LinesBeforeLast(IsTarget(_)) ==
    LET evs == call.all_events
        hits == {i \in DOMAIN evs : IsTarget(i)}
        last == CHOOSE i \in hits : \A j \in hits : j <= i
        candidates ==
            IF hits # {}
            THEN SubSeq(evs, 1, last - 1)
            ELSE SelectSeq(evs, LAMBDA e : e.timestamp < call.timestamp)
    IN  StrippedMessages(Suffix(candidates, call.limit))

\* The detected event as C14 states it: the timestamp is the target's and,
\* when a match message is supplied, the message equals it.
EqualsMatchMessage(i) ==
    /\ call.all_events[i].timestamp = call.timestamp
    /\ \/ call.match_message = NoMessage
       \/ call.all_events[i].message = call.match_message

\* The detected event as the code tells it: a match message that is None or
\* empty is not compared, and the messages are compared without their
\* trailing whitespace.
EqualsStrippedMatchMessage(i) ==
    /\ call.all_events[i].timestamp = call.timestamp
    /\ \/ call.match_message \in {NoMessage, Message("", 0)}
       \/ rstrip(call.all_events[i].message) = rstrip(call.match_message)

C15_ShortCircuitWithoutRequest ==
    (/\ Returned
     /\ call.fn = "get_previous_log_lines"
     /\ (call.limit <= 0 \/ call.stream_name = ""))
        => /\ ret.lines = <<>>
           /\ ret.requests = 0
           /\ ~ret.raised

\* Without a stream name nothing was requested, although the backend holds
\* an event before the detected one and a line was asked for.
C15_Witness ==
    /\ Returned
    /\ call.stream_name = ""
    /\ call.limit = 1
    /\ call.pages = << Response(TRUE, call.all_events, "") >>
    /\ Len(call.all_events) = 2
    /\ call.all_events[2].timestamp = call.timestamp
    /\ ret.lines = <<>>
    /\ ret.requests = 0

\* apply_exclusions_regex has returned n times without raising.
Applied(n) ==
    /\ Returned
    /\ call.fn = "apply_exclusions_regex"
    /\ ret.applied = n
    /\ ~ret.raised

\* The pattern list of the call, None being no pattern.
CallPatterns ==
    IF call.exclude_patterns.present THEN call.exclude_patterns.list ELSE <<>>

\* The regular expression matches the whole of s.
FullMatch(p, s) ==
    /\ Len(s) = Len(p.chars)
    /\ \A k \in DOMAIN s : p.chars[k] \in {".", s[k]}

\* The regular expression matches some part of the message (from its
\* beginning, for an expression that begins with ^).
FoundSomewhere(p, message) ==
    \E i \in 1..(Len(message) + 1) :
    \E j \in (i - 1)..Len(message) :
        /\ p.anchored => i = 1
        /\ FullMatch(p, SubSeq(message, i, j))

\* The indices of the input events in whose message no pattern that
\* compiles is found.
Retained ==
    {i \in DOMAIN call.events :
        \A k \in DOMAIN CallPatterns :
            CallPatterns[k].compiles = "ok"
                => ~FoundSomewhere(CallPatterns[k], call.events[i].message)}

\* C16: apply_exclusions_regex returns exactly the input events whose
\* message matches none of the compiled patterns (anywhere in the message),
\* in their original order and without de-duplication.
C16_RetainsExactlyUnmatched ==
    Applied(1) =>
        /\ Len(ret.events) = Cardinality(Retained)
        /\ \A i \in Retained :
              ret.events[Cardinality({j \in Retained : j <= i})] = call.events[i]

\* The pattern "a" has removed "ba" and kept both events "b".
C16_Witness ==
    /\ Applied(1)
    /\ call.exclude_patterns.list = << Pattern("ok", FALSE, <<"a">>) >>
    /\ call.events = << [message |-> <<"b", "a">>], [message |-> <<"b">>],
                        [message |-> <<"b">>] >>
    /\ ret.events = << [message |-> <<"b">>], [message |-> <<"b">>] >>

\* C17: a pattern that fails to compile is skipped without raising and
\* without changing the effect of the valid patterns of the list; with no
\* list, an empty list or no pattern that compiles the events are returned
\* unchanged.
C17_BadPatternSkipped ==
    (Returned /\ call.fn = "apply_exclusions_regex" /\ ret.applied = 1) =>
        /\ ~ret.raised
        /\ ret.events =
              apply_exclusions_regex(
                  call.events, PatternList(TRUE, Compiled(CallPatterns))).events
        /\ Compiled(CallPatterns) = <<>> => ret.events = call.events

\* C18: applying the filter to its own output with the same patterns gives
\* the same events as applying it once.
C18_Idempotent ==
    Applied(2) => ret.events = ret.first

\* The second application has left what the first one kept of the input.
C18_Witness ==
    /\ Applied(2)
    /\ Len(call.events) = 3
    /\ Len(ret.first) = 1
    /\ ret.events = ret.first

\* The effective severity as C19 states it: the monitor's if set, else the
\* global default.
StatedSeverity ==
    IF call.monitor.severity \notin {Absent, Null, ""}
    THEN call.monitor.severity
    ELSE call.global_config.defaults_severity

\* The project's override for the effective severity, Absent without one.
StatedProjectOverride ==
    IF call.project.override_sns_topics.kind = "map"
    THEN call.project.override_sns_topics.map[StatedSeverity]
    ELSE Absent

\* C19: resolve_sns_topic returns the first present value of the monitor's
\* target override, the project's override for the effective severity and
\* the global target for that severity, a value being present when it is set
\* to a non-empty string.
C19_FirstPresentTarget ==
    (Returned /\ call.fn = "resolve_sns_topic") =>
        /\ ~ret.raised
        /\ ret.topic =
              IF call.monitor.override_sns_topic \notin {Absent, Null, ""}
              THEN call.monitor.override_sns_topic
              ELSE IF StatedProjectOverride \notin {Absent, Null, ""}
              THEN StatedProjectOverride
              ELSE call.global_config.sns_topics[StatedSeverity]

\* handler is inside _process_project.
InProject ==
    pc \in {"monitor", "metric", "evaluate", "notify", "publish", "update",
            "timestamp"}

\* The monitors of the enabled projects among the first n loaded ones.
RECURSIVE EnabledMonitors(_)
EnabledMonitors(n) ==
    IF n = 0 THEN 0
    ELSE EnabledMonitors(n - 1)
         + (IF projects[n].enabled THEN Len(MonitorsOf(n)) ELSE 0)

\* C20: a project whose enabled flag is false is skipped entirely: no
\* search, metric, notification, alarm-state update or watermark advance
\* happens for it, and it is not counted in processed_projects.
C20_DisabledProjectSkipped ==
    /\ \A i \in DOMAIN projects :
          ~projects[i].enabled =>
              /\ ~(InProject /\ pi = i)
              /\ \A j \in DOMAIN metrics : metrics[j].project # projects[i].sk
              /\ \A j \in DOMAIN published : published[j].project # projects[i].sk
              /\ \A j \in DOMAIN processed : processed[j].project # projects[i].sk
              /\ \A j \in DOMAIN failures : failures[j].project # projects[i].sk
              /\ \A k \in Keywords :
                    table_states[StateSk(projects[i].sk, k)]
                        = states[StateSk(projects[i].sk, k)]
              /\ table_projects[i].last_searched_at = projects[i].last_searched_at
    /\ results.total_monitors <= EnabledMonitors(Len(projects))
    /\ results.processed_projects
          <= Cardinality({i \in DOMAIN projects : projects[i].enabled})

\* The second invocation returns: p1 and p3 were processed and counted, the
\* disabled p2 has still never been searched.
C20_Witness ==
    /\ pc = "done"
    /\ runs = 2
    /\ ~projects[2].enabled
    /\ results.processed_projects = 2
    /\ results.total_monitors = 3
    /\ table_projects[1].last_searched_at = search_end
    /\ table_projects[2].last_searched_at = None
    /\ table_projects[3].last_searched_at = search_end
    /\ \A k \in Keywords : ~table_states[StateSk("p2", k)].exists

\* C21 as stated: the search window of a project in an invocation is
\* [last_searched_at if the project has one, else now - default_window ;
\* now - ingestion_delay_buffer], now being the invocation's current time.
C21_WindowFromNow ==
    InProject =>
        /\ search_end = clock - INGESTION_DELAY_BUFFER_MIN
        /\ search_start =
              IF projects[pi].last_searched_at # None
              THEN projects[pi].last_searched_at
              ELSE clock - DEFAULT_SEARCH_WINDOW_MIN

\* C21, amended: the search window of a project in an invocation ends at
\* now - ingestion_delay_buffer and starts at the project's last_searched_at
\* if it has one, else at the window's end - default_window, that is at
\* now - ingestion_delay_buffer - default_window.
C21_WindowFromSearchEnd ==
    InProject =>
        /\ search_end = clock - INGESTION_DELAY_BUFFER_MIN
        /\ search_start =
              IF projects[pi].last_searched_at # None
              THEN projects[pi].last_searched_at
              ELSE clock - INGESTION_DELAY_BUFFER_MIN - DEFAULT_SEARCH_WINDOW_MIN

\* In one invocation p1, searched before, has been searched from its
\* watermark, and p3, never searched, is searched over the default window
\* before the search end.
C21_Witness ==
    /\ pc = "metric"
    /\ pi = 3
    /\ projects[1].last_searched_at = 1
    /\ projects[3].last_searched_at = None
    /\ table_projects[1].last_searched_at = search_end
    /\ search_start = search_end - DEFAULT_SEARCH_WINDOW_MIN
    /\ search_start = clock - 7

\* The entries of a log for one monitor of one project.
EntriesOf(log, project_sk, idx) ==
    SelectSeq(log, LAMBDA e : e.project = project_sk /\ e.idx = idx)

\* The calls of put_metric_data that raised, for one monitor.
FailedMetrics(project_sk, idx) ==
    SelectSeq(failures, LAMBDA e : /\ e.project = project_sk
                                   /\ e.idx = idx
                                   /\ e.what = "metric")

\* The monitor has been searched and filtered and has passed step 4 in this
\* invocation: it is being evaluated, notified or persisted, or it was and
\* has completed or has raised since.
PastMetric(i, j) ==
    \/ pi = i /\ mi = j /\ Evaluated
    \/ pi = i /\ mi = j /\ pc = "evaluate"
    \/ HasEntry(processed, projects[i].sk, j)
    \/ \E k \in DOMAIN failures :
          /\ failures[k].project = projects[i].sk
          /\ failures[k].idx = j
          /\ failures[k].what \in {"metric", "context", "publish", "update_state"}

\* C22: unless global disable_custom_metrics is set, put_metric_data is
\* called once, with the post-exclusion match count, for every monitor that
\* has been searched and filtered, in every run, also when the count is 0
\* and the action is NOOP; when the flag is set, it is called for no monitor.
C22_OneMetricPerMonitor ==
    /\ \A k \in DOMAIN metrics :
          \E i \in DOMAIN projects :
              /\ projects[i].sk = metrics[k].project
              /\ projects[i].enabled
              /\ metrics[k].idx \in DOMAIN MonitorsOf(i)
              /\ metrics[k].keyword = MonitorsOf(i)[metrics[k].idx].keyword
    /\ \A i \in DOMAIN projects :
          \A j \in DOMAIN MonitorsOf(i) :
              LET emitted == Len(EntriesOf(metrics, projects[i].sk, j))
                  failed == Len(FailedMetrics(projects[i].sk, j))
              IN  IF global_config.disable_custom_metrics
                  THEN emitted = 0 /\ failed = 0
                  ELSE emitted + failed =
                           IF projects[i].enabled /\ PastMetric(i, j)
                           THEN 1 ELSE 0
    /\ (/\ pc \in {"evaluate", "notify", "publish", "update"}
        /\ ~global_config.disable_custom_metrics
        /\ FailedMetrics(projects[pi].sk, mi) = <<>>)
          => metrics[Len(metrics)] = LogEntry(matches)

\* A monitor without matches has got its metric of 0 and its NOOP.
C22_Witness ==
    /\ UpdateDone
    /\ action = "NOOP"
    /\ matches = 0
    /\ ~global_config.disable_custom_metrics
    /\ LET done == EntriesOf(processed, projects[pi].sk, mi - 1)
           sent == EntriesOf(metrics, projects[pi].sk, mi - 1)
       IN  /\ Len(done) = 1
           /\ done[1].what = "NOOP"
           /\ Len(sent) = 1
           /\ sent[1].what = 0
           /\ sent[1].keyword = monitors[mi - 1].keyword

\* The context-line count as the specification words it: the monitor's when
\* the monitor has one, else the project's, else none.
StatedContextCount ==
    IF monitors[mi].context_log_lines # None
    THEN monitors[mi].context_log_lines
    ELSE projects[pi].context_log_lines

\* C23: preceding-context lines are requested only when the action is NOTIFY
\* or RENOTIFY and the configured context-line count (the monitor's, else
\* the project's) is positive; for RECOVER, SUPPRESS, RECOVER_SILENT and
\* NOOP, or when the count is 0 or absent, no context request is made.
C23_ContextOnlyWhenDueAndConfigured ==
    [][Len(requested') > Len(requested) =>
          /\ pc = "notify"
          /\ requested' = Append(requested, requested'[Len(requested')])
          /\ requested'[Len(requested')].project = projects[pi].sk
          /\ requested'[Len(requested')].idx = mi
          /\ action \in {"NOTIFY", "RENOTIFY"}
          /\ StatedContextCount # None
          /\ StatedContextCount > 0]_vars

\* The first response that ends the pagination: one without a token, or a
\* raised request.
LastRequested(pages) ==
    CHOOSE n \in DOMAIN pages :
        /\ ~pages[n].ok \/ pages[n].nextToken = ""
        /\ \A m \in 1..(n - 1) : pages[m].ok /\ pages[m].nextToken # ""

\* The events of the first n responses, in page order.
RECURSIVE Concatenated(_, _)
Concatenated(pages, n) ==
    IF n = 0 THEN <<>>
    ELSE Concatenated(pages, n - 1) \o pages[n].events

\* C24: filter_log_events_with_pagination keeps requesting pages, passing
\* the continuation token of the previous response, until a response carries
\* no token, and returns the events of all pages concatenated in page order;
\* an error of the backing service on any page propagates to the caller.
C24_PaginatesUntilNoToken ==
    (call.fn = "filter_log_events_with_pagination" /\ ret # NoCall) =>
        LET n == LastRequested(call.pages)
        IN  /\ Len(ret.tokens) = n
            /\ ret.tokens[1] = ""
            /\ \A i \in 2..n : ret.tokens[i] = call.pages[i - 1].nextToken
            /\ ret.raised = ~call.pages[n].ok
            /\ ~ret.raised => ret.events = Concatenated(call.pages, n)

\* Three pages have been requested, the second and the third with the token
\* of the page before, and their events returned in page order.
C24_Witness ==
    /\ call.fn = "filter_log_events_with_pagination"
    /\ ret # NoCall
    /\ ~ret.raised
    /\ ret.tokens = << "", "t1", "t2" >>
    /\ call.pages[1].events = << Event(1, Message("m", 0)) >>
    /\ call.pages[3].events = <<>>
    /\ ret.events = << Event(1, Message("m", 0)),
                       Event(2, Message("n", 0)), Event(1, Message("m", 0)) >>

\* p is a prefix of text: the runs of p are those of text, the last one
\* possibly shorter.
IsPrefix(p, text) ==
    /\ Len(p) <= Len(text)
    /\ \A i \in DOMAIN p :
          /\ p[i].kind = text[i].kind
          /\ IF i < Len(p) THEN p[i].n = text[i].n ELSE p[i].n <= text[i].n

\* The text ends with the truncation marker; the text before the marker.
EndsWithMarker(text) ==
    /\ Len(text) >= Len(TruncationMarker)
    /\ SubSeq(text, Len(text) - Len(TruncationMarker) + 1, Len(text))
          = TruncationMarker

BeforeMarker(text) == SubSeq(text, 1, Len(text) - Len(TruncationMarker))

\* The serialized payload with the body as its description.
UntruncatedBytes(message) ==
    EnvelopeBytes + JsonBytes(TakeChars(message.subject, TitleLimit))
                  + JsonBytes(message.body)

\* C25: sns_publish publishes a subject and an envelope title each cut to
\* at most 100 characters, inside the fixed envelope {version, source,
\* content:{title, description}}; when the serialized payload exceeds
\* 256 KiB, the description is a truncated prefix of the body (shorter than
\* the body) followed by the truncation marker, and otherwise the description
\* is the body unchanged.
C25_TitleCutAndBodyTruncated ==
    (call.fn = "sns_publish" /\ ret # NoCall) =>
        LET subject == call.message.subject
            body == call.message.body
            content == ret.Message.content
        IN  /\ Chars(ret.Subject) <= 100
            /\ IsPrefix(ret.Subject, subject)
            /\ Chars(subject) <= 100 => ret.Subject = subject
            /\ content.title = ret.Subject
            /\ DOMAIN ret.Message = {"version", "source", "content"}
            /\ DOMAIN content = {"title", "description"}
            /\ ret.Message.version = "1.0"
            /\ ret.Message.source = "custom"
            /\ IF UntruncatedBytes(call.message) > 256 * 1024
               THEN /\ EndsWithMarker(content.description)
                    /\ IsPrefix(BeforeMarker(content.description), body)
                    /\ Chars(BeforeMarker(content.description)) < Chars(body)
               ELSE content.description = body

\* render_message has returned for a subject of the count and the log lines.
RenderedLogLines ==
    /\ call.fn = "render_message"
    /\ ret # NoCall
    /\ call.action # "RECOVER"
    /\ call.template.subject = << "{count}", "|", "{log_lines}" >>

\* The texts of the matches by a reading of their messages, the distinct
\* ones by their first occurrence, and the number of occurrences of one.
Texts(events, Read(_)) == [i \in DOMAIN events |-> Read(events[i].message)]

FirstSeen(texts) ==
    {i \in DOMAIN texts : \A j \in 1..(i - 1) : texts[j] # texts[i]}

Occurrences(texts, i) == Cardinality({j \in DOMAIN texts : texts[j] = texts[i]})

\* lines is the log_lines of the texts under the limit: the distinct texts,
\* each once, in first-seen order, the first limit of them, a text occurring
\* n > 1 times with " (xn)".
ListsDistinct(lines, texts, limit) ==
    /\ Len(lines) = IF Cardinality(FirstSeen(texts)) < limit
                    THEN Cardinality(FirstSeen(texts)) ELSE limit
    /\ \A k \in DOMAIN lines :
          \E i \in FirstSeen(texts) :
              /\ Cardinality({j \in FirstSeen(texts) : j < i}) = k - 1
              /\ lines[k] = IF Occurrences(texts, i) > 1
                            THEN texts[i] \o " (x"
                                 \o ToString(Occurrences(texts, i)) \o ")"
                            ELSE texts[i]

\* The rendered subject is the count and the log_lines of the texts, the
\* placeholder standing for lines that are Empty.
RendersLogLines(Read(_), Empty(_)) ==
    LET texts == Texts(call.matches, Read)
        limit == IF call.global_config.max_log_lines = None THEN 20
                 ELSE call.global_config.max_log_lines
    IN  \E lines \in SeqsUpTo({texts[i] : i \in DOMAIN texts}
                              \cup {texts[i] \o " (x" \o ToString(n) \o ")" :
                                       i \in DOMAIN texts, n \in 2..Len(texts)},
                              Len(texts)) :
           /\ ListsDistinct(lines, texts, limit)
           /\ ret.subject =
                 ToString(Len(call.matches)) \o "|"
                 \o (IF Empty(lines) THEN NoLogLines ELSE Join(lines, "\n"))

NoLines(lines) == lines = <<>>

NoText(lines) == Join(lines, "\n") = ""

StrippedStr(m) == Str(rstrip(m))

\* C26 as stated: in render_message, log_lines lists each distinct message
\* text once in first-seen order, suffixes a message that occurs n > 1 times
\* with " (x{n})", keeps at most global.max_log_lines distinct entries, and
\* is the fixed placeholder text when there are no lines; the rendered count
\* is the number of matches before de-duplication.
C26_DistinctMessageTexts ==
    RenderedLogLines => RendersLogLines(Str, NoLines)

\* C26, amended: the messages are compared and listed without their
\* trailing whitespace (two messages that differ in it only are one entry),
\* and the placeholder also stands for a single blank line.
C26_DistinctStrippedTexts ==
    RenderedLogLines => RendersLogLines(StrippedStr, NoText)

\* Three matches, two of them alike up to trailing whitespace, are rendered
\* under a limit of two lines as a count of 3 and two lines.
C26_Witness ==
    /\ RenderedLogLines
    /\ call.global_config.max_log_lines = 2
    /\ Len(call.matches) = 3
    /\ call.matches[1].message = Message("m", 0)
    /\ call.matches[2].message = Message("n", 0)
    /\ call.matches[3].message = Message("m", 1)
    /\ ret.subject = "3|m (x2)\nn"

\* The display name of the project of the call, the time shown as
\* detected_at and the upper-cased effective severity of its monitor.
ShownProject ==
    IF call.project.display_name # Absent THEN call.project.display_name
    ELSE call.project.sk

ShownDetectedAt ==
    IF /\ call.matches # <<>>
       /\ call.matches[Len(call.matches)].timestamp # None
    THEN FormatJst(call.matches[Len(call.matches)].timestamp)
    ELSE FormatJst(clock)

ShownSeverity ==
    IF call.monitor.severity = "critical" THEN "CRITICAL" ELSE "WARNING"

DefaultSubject == << "[", "{severity}", "] ", "{project}", " - ", "{keyword}" >>

\* C27: for action RECOVER, render_message replaces {severity} in the
\* subject with the literal RECOVER instead of the computed severity, and
\* builds the body only from project, keyword and detected_at, discarding
\* the resolved template's body, the log lines, the mention and the previous
\* lines; for NOTIFY/RENOTIFY {severity} is the upper-cased effective
\* severity.
C27_RecoverSubjectAndBody ==
    (call.fn = "render_message" /\ ret # NoCall) =>
        /\ call.action = "RECOVER" =>
              /\ ret.body = ShownProject \o " / " \o call.monitor.keyword
                            \o " has recovered\n" \o ShownDetectedAt
              /\ call.template.subject = DefaultSubject =>
                    ret.subject = "[RECOVER] " \o ShownProject \o " - "
                                  \o call.monitor.keyword
        /\ (call.action \in {"NOTIFY", "RENOTIFY"}
              /\ call.template.subject = DefaultSubject) =>
              ret.subject = "[" \o ShownSeverity \o "] " \o ShownProject
                            \o " - " \o call.monitor.keyword
        /\ (/\ call.action = "NOTIFY"
            /\ call.template.subject = DefaultSubject
            /\ call.project.display_name = "Alpha"
            /\ call.monitor.severity = "critical") =>
              ret.subject = "[CRITICAL] Alpha - ERROR"

\* A recovery has been rendered for a critical monitor with a mention, a
\* template body, matches and previous lines: none of them is in the message.
C27_Witness ==
    /\ call.fn = "render_message"
    /\ ret # NoCall
    /\ call.action = "RECOVER"
    /\ call.monitor.severity = "critical"
    /\ call.monitor.mention = "@oncall"
    /\ call.template.body = "template body"
    /\ Len(call.matches) = 2
    /\ call.previous_log_lines # <<>>
    /\ ret.subject = "[RECOVER] Alpha - ERROR"
    /\ ret.body = "Alpha / ERROR has recovered\n" \o FormatJst(3)

\* detection_count of a record, a missing one counting as 0, and the streak
\* of the loaded record plus one.
CountOf(item) == IF item.detection_count = None THEN 0 ELSE item.detection_count

NewStreak ==
    (IF CurrentState.exists /\ CurrentState.current_streak # None
     THEN CurrentState.current_streak ELSE 0) + 1

\* C28: after the action of a monitor is decided, the persisted update is:
\* NOTIFY and RENOTIFY set status ALARM, set last_detected_at and
\* last_notified_at to the run's search end, add the match count to
\* detection_count and store the new streak; SUPPRESS only adds the match
\* count to detection_count and stores the new streak, leaving status and
\* both timestamps unchanged; RECOVER and RECOVER_SILENT set status OK and
\* current_streak 0 and leave detection_count and the timestamps unchanged;
\* NOOP writes nothing.
C28_UpdateShapes ==
    [][CompletesUpdate =>
          LET old == table_states[CurrentSk]
              new == table_states'[CurrentSk]
          IN  /\ \A sk \in StateSks \ {CurrentSk} :
                    table_states'[sk] = table_states[sk]
              /\ action \in {"NOTIFY", "RENOTIFY"} =>
                    new = [exists |-> TRUE, status |-> "ALARM",
                           last_detected_at |-> search_end,
                           last_notified_at |-> search_end,
                           detection_count |-> CountOf(old) + matches,
                           current_streak |-> NewStreak]
              /\ action = "SUPPRESS" =>
                    new = [old EXCEPT !.detection_count = CountOf(old) + matches,
                                      !.current_streak = NewStreak]
              /\ action \in {"RECOVER", "RECOVER_SILENT"} =>
                    new = [old EXCEPT !.status = "OK", !.current_streak = 0]
              /\ action = "NOOP" => new = old]_vars

\* A RENOTIFY has been persisted over an ALARM record: the timestamps moved
\* to the search end, the count and the streak raised.
C28_Witness ==
    /\ UpdateDone
    /\ action = "RENOTIFY"
    /\ states[LastSk].status = "ALARM"
    /\ states[LastSk].last_notified_at < search_end
    /\ table_states[LastSk].status = "ALARM"
    /\ table_states[LastSk].last_notified_at = search_end
    /\ table_states[LastSk].last_detected_at = search_end
    /\ table_states[LastSk].detection_count = states[LastSk].detection_count + 1
    /\ table_states[LastSk].current_streak = states[LastSk].current_streak + 1


\* The streak a table stores for a key: 0 without a record.
StoredStreak(sk) == RunsOf(table_states)[sk]

\* The runs of this key are complete runs: its project raised in no
\* invocation so far, this one included.
CompleteRuns(sk) ==
    /\ detected_runs[sk] # Unknown
    /\ \A p \in ProjectSks, k \in Keywords : sk = StateSk(p, k) => ~Raised(p)

StreakCountsRuns ==
    \A sk \in StateSks : CompleteRuns(sk) => StoredStreak(sk) = detected_runs[sk]

\* C29: the streak stored by a run with at least one match is the streak
\* stored before plus 1 (0 without a record), and over runs without failures
\* the stored streak is the number of latest runs in a row with a detection.
C29_StreakCountsConsecutiveRuns ==
    /\ []StreakCountsRuns
    /\ [][(CompletesUpdate /\ matches > 0) =>
             /\ table_states'[CurrentSk].exists
             /\ table_states'[CurrentSk].current_streak = StoredStreak(CurrentSk) + 1]_vars

\* Three detecting runs in a row: the record in alarm since an earlier
\* invocation has been counted up twice.
C29_Witness ==
    /\ UpdateDone
    /\ runs = MaxRuns
    /\ matches > 0
    /\ detected_runs[LastSk] = MaxRuns + 1
    /\ table_states[LastSk].current_streak = MaxRuns + 1


\* The monitors one configured monitor stands for: the keywords of its
\* list, or its one keyword unless that is empty.
Listed(m) ==
    IF m.is_list THEN Len(m.keyword)
    ELSE IF m.keyword # <<>> /\ m.keyword[1] # "" THEN 1 ELSE 0

\* The monitors the first n configured monitors stand for.
RECURSIVE ListedBefore(_, _)
ListedBefore(monitors_config, n) ==
    IF n = 0 THEN 0
    ELSE ListedBefore(monitors_config, n - 1) + Listed(monitors_config[n])

\* The project at hand is inside its monitor loop, or has just left it.
InMonitorLoop == pc \in {"monitor", "metric", "evaluate", "notify", "publish",
                         "update", "timestamp"}

\* The monitors the log entries of the project at hand are about, in the
\* order of the entries.
LoggedIdx(log) ==
    LET own == SelectSeq(log, LAMBDA e : e.project = projects[pi].sk)
    IN  [k \in DOMAIN own |-> own[k].idx]

\* The monitor at hand has not been searched yet.
BeforeSearch == pc = "monitor"

\* C30: a monitor with a keyword list is processed as one monitor per listed
\* keyword with the same configuration otherwise, and the monitors of a
\* project are processed one after the other in configured order (list
\* keywords in list order): all steps of a monitor, its state update
\* included, are completed before the next monitor is searched.
C30_OneMonitorPerKeywordInOrder ==
    InMonitorLoop =>
        LET monitors_config == projects[pi].monitors
        IN  /\ Len(monitors) = ListedBefore(monitors_config, Len(monitors_config))
            /\ \A i \in DOMAIN monitors_config :
                  \A j \in 1..Listed(monitors_config[i]) :
                      monitors[ListedBefore(monitors_config, i - 1) + j] =
                          [monitors_config[i] EXCEPT
                              !.keyword = monitors_config[i].keyword[j],
                              !.is_list = FALSE]
            /\ LoggedIdx(processed) = [k \in 1..(mi - 1) |-> k]
            /\ \A k \in DOMAIN LoggedIdx(metrics) :
                  LoggedIdx(metrics)[k] <= mi /\ (BeforeSearch => LoggedIdx(metrics)[k] < mi)
            /\ \A k \in DOMAIN LoggedIdx(requested) :
                  LoggedIdx(requested)[k] <= mi /\ (BeforeSearch => LoggedIdx(requested)[k] < mi)
            /\ \A k \in DOMAIN LoggedIdx(published) :
                  LoggedIdx(published)[k] <= mi /\ (BeforeSearch => LoggedIdx(published)[k] < mi)

\* The keyword of a list that follows a single keyword is about to be
\* searched: the monitor before it was notified and persisted.
C30_Witness ==
    /\ BeforeSearch
    /\ projects[pi].sk = "p3"
    /\ Len(projects[pi].monitors) = 2
    /\ projects[pi].monitors[2].is_list
    /\ mi = 2
    /\ monitors[1].keyword = "b"
    /\ monitors[2].keyword = "a"
    /\ LoggedIdx(published) = << 1 >>
    /\ LoggedIdx(processed) = << 1 >>


\* A notification of one of the given actions for the key is in the log of
\* published notifications.
PublishedFor(sk, actions) ==
    \E k \in DOMAIN published :
        /\ StateSk(published[k].project, published[k].keyword) = sk
        /\ published[k].what \in actions

\* C31: a record gets status ALARM only after a NOTIFY or RENOTIFY for its
\* key was published without error, and a monitor with a notification due
\* has its state updated only after that notification was published.
C31_AlarmOnlyAfterPublish ==
    [][/\ \A sk \in StateSks :
             (table_states'[sk].status = "ALARM" /\ table_states[sk] # table_states'[sk]
              /\ action # "SUPPRESS")
                 => PublishedFor(sk, {"NOTIFY", "RENOTIFY"})
       /\ (CompletesUpdate /\ action \in {"NOTIFY", "RENOTIFY", "RECOVER"}) =>
             /\ published # <<>>
             /\ published[Len(published)] = LogEntry(action)
             /\ \A k \in DOMAIN failures :
                   ~(/\ failures[k].what = "publish"
                     /\ failures[k].project = projects[pi].sk
                     /\ failures[k].idx = mi)]_vars

\* The first alarm of a key has been stored after its NOTIFY was published.
C31_Witness ==
    /\ UpdateDone
    /\ ~states[LastSk].exists
    /\ table_states[LastSk].status = "ALARM"
    /\ PublishedFor(LastSk, {"NOTIFY"})


\* The notifications published in this invocation for one key.
PublishedOf(sk) ==
    SelectSeq(published, LAMBDA e : StateSk(e.project, e.keyword) = sk)

\* C32: within one invocation at most one notification is published per
\* (project, keyword) key, also when the keyword occurs more than once among
\* the monitors of the project.
C32_OneNotificationPerKey ==
    \A sk \in StateSks : Len(PublishedOf(sk)) <= 1


\* A notification of the monitor at hand is published by this step.
Publishes == Len(published') > Len(published)

\* C33: over invocations without failures, for a key with one monitor, two
\* NOTIFY notifications are separated by a run that recovered the key, and
\* a RECOVER notification follows a NOTIFY with no other RECOVER in between.
C33_NotifyAndRecoverAlternate ==
    [][(Publishes /\ CompleteRuns(CurrentSk)) =>
          /\ action = "NOTIFY" =>
                last_change[CurrentSk] \in {"NONE", "RECOVER", "RECOVER_SILENT"}
          /\ action = "RECOVER" => last_change[CurrentSk] = "NOTIFY"]_vars

\* An alarm of an earlier invocation recovered in the first invocation and
\* is notified again in the second one.
C33_Witness ==
    /\ pc = "update"
    /\ runs = MaxRuns
    /\ action = "NOTIFY"
    /\ published # <<>>
    /\ published[Len(published)] = LogEntry("NOTIFY")
    /\ last_change[CurrentSk] = "RECOVER"
    /\ states[CurrentSk].status = "OK"
    /\ states[CurrentSk].detection_count = MaxRuns


\* The NOTIFY of the monitor at hand was not published in the invocation
\* before (every notification of a first invocation over a table without
\* records is a NOTIFY), and the monitor has been evaluated again.
EvaluatedAfterFailedNotify ==
    /\ Evaluated
    /\ CurrentSk \in earlier.unpublished

\* C34: after the publish of a NOTIFY failed, the state of the key is still
\* OK or absent and the watermark was not advanced, so the next invocation
\* searches from the same start again and issues NOTIFY if there are matches.
C34_FailedNotifyIsRetried ==
    EvaluatedAfterFailedNotify =>
        /\ StatusOf(CurrentState) = "OK"
        /\ table_projects[pi].last_searched_at = projects[pi].last_searched_at
        /\ search_start = earlier.search_start[projects[pi].sk]
        /\ matches > 0 => action = "NOTIFY"


\* The invocation before added the matches of its window to the count of
\* the key: it stored the detection at its search end.
CountedBefore(sk) ==
    /\ earlier.search_end # None
    /\ states[sk].exists
    /\ states[sk].last_detected_at = earlier.search_end

\* C35: the matches of a log time range are added to a monitor's
\* detection_count at most once: an update that adds matches is about a
\* window that starts where the window counted before ended, or later.
C35_RangeCountedOnce ==
    [][(CompletesUpdate /\ matches > 0 /\ CountedBefore(CurrentSk)) =>
          /\ table_states'[CurrentSk].detection_count =
                 states[CurrentSk].detection_count + matches
          /\ search_start >= earlier.search_end]_vars


\* The project at hand was processed by the invocation before.
ProcessedBefore == earlier.search_start[projects[pi].sk] # None

\* C36: the search of a project starts at the search end of the invocation
\* before when that invocation processed the project successfully, and at
\* that invocation's unchanged search start when the project failed in it.
C36_WindowsFollowEachOther ==
    (InMonitorLoop /\ ProcessedBefore) =>
        IF projects[pi].sk \in earlier.raised
        THEN search_start = earlier.search_start[projects[pi].sk]
        ELSE search_start = earlier.search_end


\* C37: the serialized Message that sns_publish hands to the transport is at
\* most 256 KiB in UTF-8 for every body, also for bodies whose characters
\* JSON writes as longer escape sequences.
C37_MessageWithinLimit ==
    (call.fn = "sns_publish" /\ ret # NoCall) =>
        PayloadBytes(ret.Message) <= 256 * 1024


\* The indices of the events whose messages get_previous_log_lines returned:
\* the last ones before the target it found or, without a target, the last
\* ones with a timestamp below the target's.
ReturnedEvents ==
    LET evs == call.all_events
        target_index == TargetIndex(evs, Len(evs), call.timestamp, call.match_message)
        below == {i \in DOMAIN evs : evs[i].timestamp < call.timestamp}
    IN  IF target_index # 0
        THEN (target_index - Len(ret.lines))..(target_index - 1)
        ELSE {i \in below :
                 Cardinality({j \in below : j >= i}) <= Len(ret.lines)}

\* C38: no line returned by get_previous_log_lines comes from the detected
\* event, that is from an event with the timestamp of the target and the
\* message that was supplied as match message, also within a burst of
\* events with the timestamp of the target.
C38_DetectedEventNotReturned ==
    (Fetched /\ call.match_message # NoMessage) =>
        \A i \in ReturnedEvents :
            ~(/\ call.all_events[i].timestamp = call.timestamp
              /\ call.all_events[i].message = call.match_message)


\* The two timestamps of a record.
Timestamps(item) == << item.last_detected_at, item.last_notified_at >>

TimestampsAgree ==
    \A sk \in StateSks :
        table_states[sk].exists =>
            table_states[sk].last_detected_at = table_states[sk].last_notified_at

\* C39: in every stored record last_detected_at equals last_notified_at:
\* both are written together, with the search end, by the update of a NOTIFY
\* or RENOTIFY and by no other update, so a SUPPRESS run with detections
\* leaves last_detected_at alone.
C39_DetectedEqualsNotified ==
    /\ []TimestampsAgree
    /\ [][\A sk \in StateSks :
             Timestamps(table_states'[sk]) # Timestamps(table_states[sk]) =>
                 /\ CompletesUpdate
                 /\ sk = CurrentSk
                 /\ action \in {"NOTIFY", "RENOTIFY"}
                 /\ Timestamps(table_states'[sk]) = << search_end, search_end >>]_vars

\* A SUPPRESS run with detections has been stored: the count went up, the
\* timestamps are those of the notification of the invocation before.
C39_Witness ==
    /\ UpdateDone
    /\ processed[Len(processed)].what = "SUPPRESS"
    /\ matches > 0
    /\ table_states[LastSk].detection_count = states[LastSk].detection_count + matches
    /\ table_states[LastSk].last_detected_at = table_states[LastSk].last_notified_at
    /\ table_states[LastSk].last_detected_at < search_end


\* The response ends the pagination as C40 words it: it has no forward
\* token, or the forward token of the response received just before it.
EndsPagination(responses, i) ==
    \/ responses[i].nextForwardToken = ""
    \/ i > 1 /\ responses[i].nextForwardToken = responses[i - 1].nextForwardToken

\* The events of the responses, in the order received.
RECURSIVE EventsOf(_)
EventsOf(responses) ==
    IF responses = <<>> THEN <<>>
    ELSE EventsOf(SubSeq(responses, 1, Len(responses) - 1))
         \o responses[Len(responses)].events

\* The loop stops at the first response that ends the pagination, and keeps
\* the events of all responses up to and including it.
StopsAtFirstEnd ==
    call.fn = "get_log_events" =>
        LET responses == call.responses
            n == Len(responses)
        IN  /\ \A i \in 1..(n - 1) : ~EndsPagination(responses, i)
            /\ (ret = NoCall /\ n > 0) => ~EndsPagination(responses, n)
            /\ (ret # NoCall /\ ~ret.failed) =>
                  /\ EndsPagination(responses, n)
                  /\ ret.requests = n
                  /\ ret.all_events = EventsOf(responses)

\* C40: the pagination loop of get_previous_log_lines terminates when the
\* backend eventually returns a response with no forward token or with the
\* token of the response before; it stops at the first such response and
\* keeps the events of every response received, that last one included.
C40_PaginationTerminates ==
    /\ <>(ret # NoCall)
    /\ []StopsAtFirstEnd

\* The loop was left at the third response, which repeated the token of the
\* second; the events of all three are kept.
C40_Witness ==
    /\ call.fn = "get_log_events"
    /\ ret # NoCall
    /\ ~ret.failed
    /\ Len(call.responses) = 3
    /\ call.responses[1].nextForwardToken = "t1"
    /\ call.responses[2].nextForwardToken = "t2"
    /\ call.responses[3].nextForwardToken = "t2"
    /\ \A i \in 1..3 : call.responses[i].events # <<>>
    /\ Len(ret.all_events) >= 3

====
